---- MODULE Spec2Model ----
(***************************************************************************)
(* A model of easy-validation: the type shims (types-basic.js,             *)
(* types-complex.js), the conditions (conditions.js), the composition      *)
(* operator and() (utils.js: attachOptions) and the recursive traversal    *)
(* validateData (type-validation.js, current version at lines 539-616).    *)
(*                                                                         *)
(* JavaScript values are tagged records.  A number is kept as twice its    *)
(* value so that halves (4.5) are representable and Number.isInteger has   *)
(* something to reject.  An optional value (a priority that was never      *)
(* set, an omitted range bound, NaN) is a sequence of length 0 or 1.       *)
(*                                                                         *)
(* Every evaluation yields a record [res, calls, node]:                    *)
(*   res   - what the JavaScript call returns (or the error it throws),    *)
(*   calls - the invocations made, in order: the callee logs itself at     *)
(*           depth 0 and a caller lifts its callee's log by one level,     *)
(*   node  - the schema node as the call leaves it (and() sorts the        *)
(*           option array of the validator in place).                      *)
(*                                                                         *)
(* Spec evaluates each call in one step.  SpecAsync follows one call of    *)
(* validateData step by step, from await to await, with every awaited      *)
(* call as a task; SpecSelf does so for a schema that contains itself.     *)
(* SpecConcurrent follows two calls of one validator that run at the same  *)
(* time, with the option array, the closure variable result and the global *)
(* result they share.  SpecToKeys applies toKeys to error lists and         *)
(* SpecLegacy calls isArray.limit of the earlier, chained API.             *)
(***************************************************************************)
EXTENDS Integers, Sequences, FiniteSets, TLC

VARIABLES
  engine,   \* the sort algorithm of the JavaScript engine the library runs on
  written,  \* the schema as the caller constructed it
  schema,   \* the schema object as it is now
  data,     \* the data value given to the call
  prefix,   \* the prefix argument of validateData
  pc,       \* "ready", or which call has returned
  outcome,  \* what the last call returned or threw
  calls,    \* the invocations the last call made, in order
  round,    \* how many calls were made
  tasks,    \* the async function calls of the call in progress, in the order
            \* they were made (used when the call is followed step by step)
  keyErrors, \* the object toKeys returned (used when toKeys is applied)
  env       \* the variables that outlive a call: the closure variable result
            \* of attachOptions and the global result that ofType assigns
            \* (followed when two calls run concurrently)

vars == <<engine, written, schema, data, prefix, pc, outcome, calls, round, tasks,
          keyErrors, env>>

-----------------------------------------------------------------------------
(* JavaScript values *)

Undefined == [t |-> "undefined"]

Null == [t |-> "null"]

Bool(b) == [t |-> "boolean", b |-> b]

Num(twice) == [t |-> "number", twice |-> twice]

(* the number NaN: typeof NaN === 'number', and it has no numeric value *)
NaN == [t |-> "number", nan |-> TRUE]

IsNaN(v) == v.t = "number" /\ "twice" \notin DOMAIN v

Str(s) == [t |-> "string", s |-> s]

Fn == [t |-> "function"]

Arr(items) == [t |-> "array", items |-> items]

Obj(keys, vals) == [t |-> "object", keys |-> keys, vals |-> vals]

(* Array.prototype.indexOf on a sequence of strings: 0 when absent, else
   the 1-based position of the first occurrence. *)
IndexOf(seq, x) ==
  IF \E i \in 1..Len(seq) : seq[i] = x
  THEN CHOOSE i \in 1..Len(seq) : seq[i] = x /\ \A j \in 1..(i-1) : seq[j] # x
  ELSE 0

(* Array.prototype.splice(index, 1) *)
Splice(seq, i) == SubSeq(seq, 1, i-1) \o SubSeq(seq, i+1, Len(seq))

(* Object.keys(data) *)
ObjectKeys(d) == IF d.t = "object" THEN d.keys ELSE <<>>

(* data[key] *)
Get(d, key) ==
  IF d.t = "object" /\ IndexOf(d.keys, key) > 0
  THEN d.vals[IndexOf(d.keys, key)]
  ELSE Undefined

(* value[0], ..., value[value.length - 1] of an array or a string *)
Indexed(v) ==
  IF v.t = "array" THEN v.items ELSE [i \in 1..Len(v.s) |-> Str(SubSeq(v.s, i, i))]

(* Template-literal rendering of an integer, `${n}` *)
Digits == <<"0", "1", "2", "3", "4", "5", "6", "7", "8", "9">>

RECURSIVE NatStr(_)
NatStr(n) == IF n < 10 THEN Digits[n + 1] ELSE NatStr(n \div 10) \o Digits[(n % 10) + 1]

IntStr(n) == IF n < 0 THEN "-" \o NatStr(-n) ELSE NatStr(n)

(* `${bound}` of an optional bound *)
BoundStr(b) == IF Len(b) = 0 THEN "undefined" ELSE IntStr(b[1])

(* `${list}` of an array of strings: comma-joined, no spaces *)
RECURSIVE JoinComma(_)
JoinComma(list) ==
  IF Len(list) = 0 THEN ""
  ELSE IF Len(list) = 1 THEN list[1]
  ELSE list[1] \o "," \o JoinComma(Tail(list))

(* ToNumber as the relational operators apply it; <<>> is NaN.  An array is
   first rendered as a string, its elements joined by commas (null and
   undefined render as nothing), and the string is then read as a number;
   the strings of the model other than '' are not numerals. *)
RECURSIVE ToNumber(_)
ToNumber(v) ==
  CASE v.t = "number" -> IF IsNaN(v) THEN <<>> ELSE <<v.twice>>
    [] v.t = "null" -> <<0>>
    [] v.t = "boolean" -> IF v.b THEN <<2>> ELSE <<0>>
    [] v.t = "string" -> IF v.s = "" THEN <<0>> ELSE <<>>
    [] v.t = "array" ->
         IF Len(v.items) = 0 THEN <<0>>
         ELSE IF Len(v.items) > 1 THEN <<>>
         ELSE IF v.items[1].t \in {"null", "undefined"} THEN <<0>>
         ELSE IF v.items[1].t \in {"number", "string", "array"} THEN ToNumber(v.items[1])
         ELSE <<>>
    [] OTHER -> <<>>

(* a > b, a < b, a >= b, a <= b on optional numbers: false when either is NaN *)
JsGt(a, b) == Len(a) = 1 /\ Len(b) = 1 /\ a[1] > b[1]

JsLt(a, b) == Len(a) = 1 /\ Len(b) = 1 /\ a[1] < b[1]

JsGe(a, b) == Len(a) = 1 /\ Len(b) = 1 /\ a[1] >= b[1]

JsLe(a, b) == Len(a) = 1 /\ Len(b) = 1 /\ a[1] <= b[1]

(* an optional integer bound on the doubled scale *)
Twice(b) == IF Len(b) = 0 THEN <<>> ELSE <<2 * b[1]>>

-----------------------------------------------------------------------------
(* Results of a call *)

True == [kind |-> "true"]

Message(m) == [kind |-> "string", msg |-> m]

Errors(list) == [kind |-> "array", errs |-> list]

(* what else a function written by the user may return: false, undefined,
   a number *)
False == [kind |-> "false"]

NoValue == [kind |-> "undefined"]

Zero == [kind |-> "number"]

Thrown(m) == [kind |-> "throw", msg |-> m]

ValidationError(key, error) == [key |-> key, error |-> error]

Event(op, path) == [op |-> op, path |-> path, depth |-> 0]

Bump(log) == [i \in 1..Len(log) |-> [log[i] EXCEPT !.depth = @ + 1]]

-----------------------------------------------------------------------------
(* Schema nodes *)

(* a bare type shim: isString, isBoolean, isNumeric, isInteger, isFunction,
   isArray, isObject *)
Shim(name) == [tag |-> "shim", name |-> name]

(* isCustom(customCondition); the user function is described by the value
   kinds it rejects and the message it then returns *)
IsCustom(rejects, msg) == [tag |-> "shim", name |-> "isCustom", rejects |-> rejects, msg |-> msg]

(* isCustom(customCondition) with a user function that returns ret, whatever
   it is, for the value kinds it rejects *)
Returning(rejects, ret) == [tag |-> "shim", name |-> "isCustom", rejects |-> rejects, ret |-> ret]

(* isAnyOf(types) *)
IsAnyOf(types) == [tag |-> "shim", name |-> "isAnyOf", types |-> types]

(* shim.and(...options) *)
And(shim, options) == [tag |-> "and", shim |-> shim, options |-> options]

(* an object literal { k1: n1, k2: n2, ... } *)
Mapping(keys, nodes) == [tag |-> "mapping", keys |-> keys, nodes |-> nodes]

(* a schema value that is undefined, { k: undefined } *)
NoSchema == [tag |-> "undefined"]

(* a schema object that is reached again from inside itself: the place
   where it occurs in itself holds a reference to it *)
Ref(name) == [tag |-> "ref", name |-> name]

(* typeof node === 'function' *)
IsFunction(node) == node.tag \in {"shim", "and"}

-----------------------------------------------------------------------------
(* Conditions (conditions.js, second listing) *)

required == [c |-> "required", priority |-> <<3>>]

notEmpty == [c |-> "notEmpty", priority |-> <<2>>]

inList(list) == [c |-> "inList", priority |-> <<2>>, list |-> list]

range(lower, upper) == [c |-> "range", priority |-> <<2>>, lower |-> lower, upper |-> upper]

ofType(type) == [c |-> "ofType", priority |-> <<0>>, type |-> type]

ofShape(shape) == [c |-> "ofShape", priority |-> <<0>>, shape |-> shape]

(* a condition written by the user (README, "custom conditions"): a function
   value => true | message, with whatever priority property the user set *)
Custom(name, priority, rejects) ==
  [c |-> name, priority |-> priority, rejects |-> rejects, custom |-> TRUE]

(* a condition written by the user that returns ret, whatever it is, for the
   value kinds it rejects *)
CustomReturning(name, priority, rejects, ret) ==
  [c |-> name, priority |-> priority, rejects |-> rejects, custom |-> TRUE, ret |-> ret]

(* an argument of and() that is not a function *)
NotAFunction == [c |-> "notAFunction", priority |-> <<>>]

IsCustomCondition(c) == "custom" \in DOMAIN c

-----------------------------------------------------------------------------
(* options.sort(comparator), utils.js lines 16-22 *)

(* the comparator with the test turned around: ascending priority *)
CompareAscending(v1, v2) == IF JsLt(v1.priority, v2.priority) THEN -1 ELSE 1

(* the comparator: never 0; a missing priority compares false both ways *)
Compare(v1, v2) == IF JsGt(v1.priority, v2.priority) THEN -1 ELSE 1

(* the reversal with its index one off: the first element is written twice *)
ReverseOffByOne(seq) ==
  [i \in 1..Len(seq) |-> seq[IF i = Len(seq) THEN 1 ELSE Len(seq) - i]]

Reverse(seq) == [i \in 1..Len(seq) |-> seq[Len(seq) + 1 - i]]

(* V8 TimSort (Node >= 11) on fewer than 64 elements: one initial run found
   by CountAndMakeRun, the rest placed by BinaryInsertionSort. *)
RECURSIVE RunEnd(_, _, _)
RunEnd(a, desc, idx) ==
  IF idx > Len(a) THEN idx - 1
  ELSE LET order == Compare(a[idx], a[idx - 1])
       IN IF (desc /\ order >= 0) \/ (~desc /\ order < 0)
          THEN idx - 1
          ELSE RunEnd(a, desc, idx + 1)

CountAndMakeRun(a) ==
  LET desc == Compare(a[2], a[1]) < 0
      run == RunEnd(a, desc, 3)
  IN [run |-> run,
      arr |-> IF desc THEN Reverse(SubSeq(a, 1, run)) \o SubSeq(a, run + 1, Len(a)) ELSE a]

RECURSIVE BinarySearch(_, _, _, _)
BinarySearch(a, pivot, left, right) ==
  IF left < right
  THEN LET mid == left + ((right - left) \div 2)
       IN IF Compare(pivot, a[mid]) < 0
          THEN BinarySearch(a, pivot, left, mid)
          ELSE BinarySearch(a, pivot, mid + 1, right)
  ELSE left

RECURSIVE BinaryInsertionSort(_, _)
BinaryInsertionSort(a, start) ==
  IF start > Len(a) THEN a
  ELSE LET pivot == a[start]
           left == BinarySearch(a, pivot, 1, start)
       IN BinaryInsertionSort(
            SubSeq(a, 1, left - 1) \o <<pivot>> \o SubSeq(a, left, start - 1)
              \o SubSeq(a, start + 1, Len(a)),
            start + 1)

TimSort(a) ==
  LET r == CountAndMakeRun(a) IN BinaryInsertionSort(r.arr, r.run + 1)

(* V8 before 7.0 (Node 8, 10) on at most 10 elements: insertion sort that
   shifts while comparefn(tmp, element) > 0. *)
RECURSIVE InsertPos(_, _, _)
InsertPos(a, element, j) ==
  IF j >= 1 /\ Compare(a[j], element) > 0 THEN InsertPos(a, element, j - 1) ELSE j + 1

RECURSIVE InsertionSort(_, _)
InsertionSort(a, i) ==
  IF i > Len(a) THEN a
  ELSE LET element == a[i]
           pos == InsertPos(a, element, i - 1)
       IN InsertionSort(
            SubSeq(a, 1, pos - 1) \o <<element>> \o SubSeq(a, pos, i - 1)
              \o SubSeq(a, i + 1, Len(a)),
            i + 1)

(* The comparator is not a consistent comparison function (it never returns
   0), so ECMAScript leaves the resulting order to the engine; the engine is
   a choice made at Init. *)
Engines == {"timsort", "insertion"}

SortOptions(options) ==
  IF Len(options) < 2 THEN options
  ELSE IF engine = "timsort" THEN TimSort(options)
  ELSE InsertionSort(options, 2)

-----------------------------------------------------------------------------
(* Type shims (types-basic.js, types-complex.js) *)

(* the check with isObject written as typeof value === 'object', which
   lets null and arrays through *)
TypeCheckTypeof(name, value) ==
  CASE name = "isString" ->
         IF value.t = "string" THEN True ELSE Message("value is not a string")
    [] name = "isBoolean" ->
         IF value.t = "boolean" THEN True ELSE Message("value is not a boolean")
    [] name = "isNumeric" ->
         IF value.t = "number" THEN True ELSE Message("value is not a number")
    [] name = "isInteger" ->
         IF value.t = "number" /\ ~IsNaN(value) /\ value.twice % 2 = 0
         THEN True ELSE Message("value is not an integer")
    [] name = "isFunction" ->
         IF value.t = "function" THEN True ELSE Message("value is not a function")
    [] name = "isArray" ->
         IF value.t = "array" THEN True ELSE Message("value is not an array")
    [] name = "isObject" ->
         IF value.t \in {"object", "array", "null"}
         THEN True ELSE Message("value is not an object")

(* the check a shim makes on a value that is not undefined *)
TypeCheck(name, value) ==
  CASE name = "isString" ->
         IF value.t = "string" THEN True ELSE Message("value is not a string")
    [] name = "isBoolean" ->
         IF value.t = "boolean" THEN True ELSE Message("value is not a boolean")
    [] name = "isNumeric" ->
         IF value.t = "number" THEN True ELSE Message("value is not a number")
    [] name = "isInteger" ->
         IF value.t = "number" /\ ~IsNaN(value) /\ value.twice % 2 = 0
         THEN True ELSE Message("value is not an integer")
    [] name = "isFunction" ->
         IF value.t = "function" THEN True ELSE Message("value is not a function")
    [] name = "isArray" ->
         IF value.t = "array" THEN True ELSE Message("value is not an array")
    [] name = "isObject" ->
         IF value.t = "object" THEN True ELSE Message("value is not an object")

(* the guard left out: undefined is handed to the check like any value *)
ReturnsEarlyNever(value) == FALSE

(* types-basic.js line 9: value === undefined *)
ReturnsEarly(value) == value.t = "undefined"

(* baseShim: undefined passes without the check being made *)
baseShim(name, value) ==
  IF ReturnsEarly(value) THEN True ELSE TypeCheck(name, value)

(* isObject(x) as the library itself uses it on data values *)
isObject(value) == baseShim("isObject", value)

(* isObject(x) === true on a schema node: a literal, or undefined *)
IsObjectNode(node) == node.tag \in {"mapping", "undefined"}

(* a user-written function value => true | message *)
CustomResult(rejects, msg, value) ==
  IF value.t \in rejects THEN Message(msg) ELSE True

(* a user-written function of a schema node or condition f, which returns
   f.ret when that is given and the message msg otherwise *)
CustomReturn(f, msg, value) ==
  IF "ret" \in DOMAIN f
  THEN IF value.t \in f.rejects THEN f.ret ELSE True
  ELSE CustomResult(f.rejects, msg, value)

-----------------------------------------------------------------------------
(* Conditions without recursion *)

requiredCheck(value) ==
  IF value.t = "undefined" THEN Message("value is required but missing") ELSE True

notEmptyCheck(value) ==
  IF value.t = "string" /\ value.s = ""
  THEN Message("string value can not be empty") ELSE True

inListCheck(list, value) ==
  IF value.t = "string" /\ IndexOf(list, value.s) > 0
  THEN True
  ELSE Message("value does not match accepted values: [" \o JoinComma(list) \o "]")

(* the three-way case analysis of range, on the measured quantity m and
   with the noun that starts the message *)
rangeOn(lower, upper, m, what) ==
  IF Len(lower) = 0
  THEN IF JsGt(m, Twice(upper))
       THEN Message(what \o " must be less than or equal to " \o BoundStr(upper))
       ELSE True
  ELSE IF Len(upper) = 0
  THEN IF JsLt(m, Twice(lower))
       THEN Message(what \o " must be greater than or equal to " \o BoundStr(lower))
       ELSE True
  ELSE IF JsGe(m, Twice(lower)) /\ JsLe(m, Twice(upper))
  THEN True
  ELSE Message(what \o " falls outside of range (" \o BoundStr(lower) \o ", "
                 \o BoundStr(upper) \o ")")

rangeCheck(lower, upper, value) ==
  IF value.t = "array"
  THEN rangeOn(lower, upper, <<2 * Len(value.items)>>, "array size")
  ELSE rangeOn(lower, upper, ToNumber(value), "value")

-----------------------------------------------------------------------------
(* Pieces of validateData (type-validation.js lines 539-616) *)

(* the wildcard test written as indexOf('*') > 0, which misses a wildcard
   declared first *)
WildcardConflictOffByOne(keys) == IndexOf(keys, "*") > 1 /\ Len(keys) > 1

(* lines 556-561: a wildcard with sibling keys *)
WildcardConflict(keys) == IndexOf(keys, "*") > 0 /\ Len(keys) > 1

(* lines 556-564: with a wildcard, one '*' per key of the data *)
LoopKeys(keys, extraneousKeysArr) ==
  IF IndexOf(keys, "*") > 0
  THEN [i \in 1..Len(extraneousKeysArr) |-> "*"]
  ELSE keys

(* the wildcard taking the last remaining key instead of the first *)
DataKeyLast(schemaKey, extraneousKeysArr) ==
  IF schemaKey = "*" THEN extraneousKeysArr[Len(extraneousKeysArr)] ELSE schemaKey

(* lines 568-572: the data key a schema key stands for *)
DataKey(schemaKey, extraneousKeysArr) ==
  IF schemaKey = "*" THEN extraneousKeysArr[1] ELSE schemaKey

(* the splice left out *)
RemoveKeyNever(extraneousKeysArr, dataKey) == extraneousKeysArr

(* lines 573-577: a key that is looked at is no longer extraneous *)
RemoveKey(extraneousKeysArr, dataKey) ==
  IF IndexOf(extraneousKeysArr, dataKey) > 0
  THEN Splice(extraneousKeysArr, IndexOf(extraneousKeysArr, dataKey))
  ELSE extraneousKeysArr

(* lines 581 and 609: prefix ? `${prefix}.${key}` : key *)
(* the path without the prefix of the level *)
NewPrefixBare(pre, key) == key

(* line 580 *)
NewPrefix(pre, key) == IF pre # "" THEN pre \o "." \o key ELSE key

(* the guard left out: every declared key is drilled into *)
ShouldVisitAlways(schemaValue, dataValue) == TRUE

(* line 589: drill deeper if the data value exists or the schema value is a
   function *)
ShouldVisit(schemaValue, dataValue) ==
  dataValue.t # "undefined" \/ IsFunction(schemaValue)

(* the errors of a key dropped once an earlier key has failed *)
CollectUntilFirst(results, newPrefix, result) ==
  IF Len(results) > 0 THEN results
  ELSE IF result.kind = "string"
  THEN Append(results, ValidationError(newPrefix, result.msg))
  ELSE IF result.kind = "array"
  THEN results \o result.errs
  ELSE results

(* lines 594-604: a string is one error at the path, an array is spliced in,
   anything else adds nothing *)
Collect(results, newPrefix, result) ==
  IF result.kind = "string"
  THEN Append(results, ValidationError(newPrefix, result.msg))
  ELSE IF result.kind = "array"
  THEN results \o result.errs
  ELSE results

(* lines 607-614: one error per key of the data that was never looked at *)
ExtraneousErrors(pre, extraneousKeysArr) ==
  [i \in 1..Len(extraneousKeysArr) |->
     ValidationError(NewPrefix(pre, extraneousKeysArr[i]), "extraneous key found")]

(* the list returned as it is, empty or not *)
ResultsAsTheyAre(results) == Errors(results)

(* line 615 and conditions.js line 264: results.length ? results : true *)
ResultsOrTrue(results) == IF Len(results) > 0 THEN Errors(results) ELSE True

(* the element path counted from one *)
ElementPathFromOne(pre, i) == pre \o IntStr(i + 1)

(* conditions.js lines 248 and 256: `${prefix}${i}`, prefix with its dot *)
ElementPath(pre, i) == pre \o IntStr(i)

-----------------------------------------------------------------------------
(* Pieces of and() (utils.js, attachOptions) *)

(* the test written as !result: a message is truthy and passes for success *)
PredicateFailedIfFalsy(result) == result.kind = "false"

(* lines 9-12: result !== true after the shim *)
PredicateFailed(result) == result.kind # "true"

(* the test written for messages and lists only *)
ConditionFailedIfMessage(result) == result.kind \in {"string", "array"}

(* lines 28-31: result !== true after a condition *)
ConditionFailed(result) == result.kind # "true"

-----------------------------------------------------------------------------
(* The evaluators.  callShim, callAnd and callCondition are the calls of a
   function value f(value, prefix); validateData is the exported traversal. *)

RECURSIVE validateData(_, _, _)
RECURSIVE invoke(_, _, _)
RECURSIVE callCondition(_, _, _)
RECURSIVE anyOfLoop(_, _, _, _)
RECURSIVE optionsLoop(_, _, _, _, _, _)
RECURSIVE ofTypeLoop(_, _, _, _, _, _)
RECURSIVE keysLoop(_, _, _, _, _)

(* evaluates v once and hands its value to F (a LET definition is evaluated
   again at every use) *)
Once(F(_), v) == CHOOSE y \in {F(x) : x \in {v}} : TRUE

(* the test written as if (result): a message or an error list is truthy *)
AcceptsTruthy(result) == result.kind \in {"true", "string", "array"}

(* types-complex.js line 19: result === true *)
Accepts(result) == result.kind = "true"

(* types-complex.js lines 12-25 *)
anyOfLoop(types, i, value, log) ==
  IF i > Len(types)
  THEN [res |-> Message("value failed to match one of the the allowed types"),
        calls |-> log, types |-> types]
  ELSE LET After(r) ==
             LET types2 == [types EXCEPT ![i] = r.node]
                 log2 == log \o Bump(r.calls)
             IN IF r.res.kind = "throw"
                THEN [res |-> r.res, calls |-> log2, types |-> types2]
                ELSE IF Accepts(r.res)
                THEN [res |-> True, calls |-> log2, types |-> types2]
                ELSE anyOfLoop(types2, i + 1, value, log2)
       IN Once(After, IF IsObjectNode(types[i])
                      THEN validateData(types[i], value, "")
                      ELSE invoke(types[i], value, ""))

(* a shim called as shim(value, prefix) *)
callShim(node, value, pre) ==
  LET ev == <<Event(node.name, pre)>>
      AfterLoop(l) == [res |-> l.res, calls |-> ev \o l.calls,
                       node |-> [node EXCEPT !.types = l.types]]
  IN IF ReturnsEarly(value)
     THEN [res |-> True, calls |-> ev, node |-> node]
     ELSE IF node.name = "isCustom"
     THEN [res |-> CustomReturn(node, IF "msg" \in DOMAIN node THEN node.msg ELSE "", value),
           calls |-> ev, node |-> node]
     ELSE IF node.name = "isAnyOf"
     THEN Once(AfterLoop, anyOfLoop(node.types, 1, value, <<>>))
     ELSE [res |-> TypeCheck(node.name, value), calls |-> ev, node |-> node]

(* utils.js lines 24-33 *)
optionsLoop(options, i, value, pre, result, log) ==
  IF i > Len(options)
  THEN [res |-> result, calls |-> log, options |-> options]
  ELSE IF options[i].c = "notAFunction"
  THEN [res |-> Thrown("Optional condition is not a function"),
        calls |-> log, options |-> options]
  ELSE LET After(r) ==
             LET options2 == [options EXCEPT ![i] = r.node]
                 log2 == log \o Bump(r.calls)
             IN IF ConditionFailed(r.res)
                THEN [res |-> r.res, calls |-> log2, options |-> options2]
                ELSE optionsLoop(options2, i + 1, value, pre, r.res, log2)
       IN Once(After, callCondition(options[i], value, pre))

(* utils.js lines 8-34: the validator returned by shim.and(...options) *)
callAnd(node, value, pre) ==
  LET ev == <<Event("and", pre)>>
      AfterShim(s) ==
        LET AfterLoop(l) ==
              [res |-> l.res, calls |-> ev \o Bump(s.calls) \o l.calls,
               node |-> [node EXCEPT !.shim = s.node, !.options = l.options]]
        IN IF PredicateFailed(s.res)
           THEN [res |-> s.res, calls |-> ev \o Bump(s.calls),
                 node |-> [node EXCEPT !.shim = s.node]]
           ELSE Once(AfterLoop,
                     optionsLoop(SortOptions(node.options), 1, value, pre, s.res, <<>>))
  IN Once(AfterShim, invoke(node.shim, value, pre))

invoke(node, value, pre) ==
  IF node.tag = "and" THEN callAnd(node, value, pre) ELSE callShim(node, value, pre)

(* conditions.js lines 246-263 *)
ofTypeLoop(type, items, i, pre, results, log) ==
  IF i > Len(items)
  THEN [res |-> ResultsOrTrue(results), calls |-> log, type |-> type]
  ELSE LET path == ElementPath(pre, i - 1)
           After(r) ==
             LET log2 == log \o Bump(r.calls)
             IN IF r.res.kind = "throw"
                THEN [res |-> r.res, calls |-> log2, type |-> r.node]
                ELSE IF r.res.kind = "undefined"
                THEN (* line 259: result.length of undefined *)
                     [res |-> Thrown("TypeError: Cannot read properties of undefined (reading 'length')"),
                      calls |-> log2, type |-> r.node]
                ELSE ofTypeLoop(r.node, items, i + 1, pre,
                                Collect(results, path, r.res), log2)
       IN (* line 247: isObject(type) is true or a message, and a message
             is truthy, so line 248 is taken whatever the type is *)
          Once(After, validateData(type, items[i], path))

(* a condition called as validator(value, prefix) *)
callCondition(c, value, pre) ==
  LET ev == <<Event(c.c, pre)>>
      AfterElements(l) == [res |-> l.res, calls |-> ev \o l.calls,
                           node |-> [c EXCEPT !.type = l.type]]
      AfterShape(r) == [res |-> r.res, calls |-> ev \o Bump(r.calls),
                        node |-> [c EXCEPT !.shape = r.node]]
  IN CASE IsCustomCondition(c) ->
            [res |-> CustomReturn(c, c.c \o " failed", value), calls |-> ev, node |-> c]
       [] c.c = "required" -> [res |-> requiredCheck(value), calls |-> ev, node |-> c]
       [] c.c = "notEmpty" -> [res |-> notEmptyCheck(value), calls |-> ev, node |-> c]
       [] c.c = "inList" -> [res |-> inListCheck(c.list, value), calls |-> ev, node |-> c]
       [] c.c = "range" ->
            [res |-> rangeCheck(c.lower, c.upper, value), calls |-> ev, node |-> c]
       [] c.c = "ofType" ->
            (* value.length of undefined or null is a TypeError; a value
               without a length property is looped over zero times; an
               array or a string is looped over by index *)
            IF value.t \in {"undefined", "null"}
            THEN [res |-> Thrown("TypeError: Cannot read properties of "
                                   \o value.t \o " (reading 'length')"),
                  calls |-> ev, node |-> c]
            ELSE IF value.t \in {"number", "boolean", "object", "function"}
            THEN [res |-> True, calls |-> ev, node |-> c]
            ELSE Once(AfterElements,
                      ofTypeLoop(c.type, Indexed(value), 1,
                                 IF pre # "" THEN pre \o "." ELSE pre, <<>>, <<>>))
       [] c.c = "ofShape" ->
            IF isObject(value).kind = "true"
            THEN Once(AfterShape, validateData(c.shape, value, pre))
            ELSE [res |-> isObject(value), calls |-> ev, node |-> c]

(* type-validation.js lines 566-605: the loop over the schema keys.  st is
   the loop state: the schema (nodes as left by the visits so far), the keys
   of the data not yet looked at, the errors and the log so far, and the
   error thrown, if any. *)
keysLoop(st, d, pre, keys, i) ==
  IF i > Len(keys) \/ Len(st.thrown) > 0
  THEN st
  ELSE LET schemaKey == keys[i]
           dataKey == DataKey(schemaKey, st.extraneousKeysArr)
           k == IndexOf(st.schema.keys, schemaKey)
           schemaValue == st.schema.nodes[k]
           dataValue == Get(d, dataKey)
           newPrefix == NewPrefix(pre, dataKey)
           st1 == [st EXCEPT !.extraneousKeysArr = RemoveKey(@, dataKey)]
           After(r) ==
             LET st2 == [st1 EXCEPT !.schema.nodes[k] = r.node,
                                    !.calls = @ \o Bump(r.calls)]
             IN IF r.res.kind = "throw"
                THEN [st2 EXCEPT !.thrown = <<r.res.msg>>]
                ELSE keysLoop([st2 EXCEPT !.results = Collect(@, newPrefix, r.res)],
                              d, pre, keys, i + 1)
       IN IF schemaValue.tag = "undefined"
          THEN [st1 EXCEPT !.thrown = <<"incorrect schema value for " \o newPrefix>>]
          ELSE IF ~ShouldVisit(schemaValue, dataValue)
          THEN keysLoop(st1, d, pre, keys, i + 1)
          ELSE Once(After, validateData(schemaValue, dataValue, newPrefix))

(* type-validation.js lines 539-616 *)
validateData(sch, d, pre) ==
  LET ev == <<Event("validateData", pre)>>
      AfterCall(r) == [res |-> r.res, calls |-> ev \o Bump(r.calls), node |-> r.node]
      AfterKeys(st) ==
        IF Len(st.thrown) > 0
        THEN [res |-> Thrown(st.thrown[1]), calls |-> st.calls, node |-> st.schema]
        ELSE [res |-> ResultsOrTrue(st.results
                                      \o ExtraneousErrors(pre, st.extraneousKeysArr)),
              calls |-> st.calls, node |-> st.schema]
  IN IF IsFunction(sch)
     THEN Once(AfterCall, invoke(sch, d, pre))
     ELSE IF isObject(d).kind # "true"
     THEN [res |-> isObject(d), calls |-> ev, node |-> sch]
     ELSE IF sch.tag = "undefined"
     THEN [res |-> Thrown("TypeError: Cannot convert undefined or null to object"),
           calls |-> ev, node |-> sch]
     ELSE IF WildcardConflict(sch.keys)
     THEN [res |-> Thrown("Schema wildcard conflict. A wildcard can not have sibling keys"),
           calls |-> ev, node |-> sch]
     ELSE Once(AfterKeys,
               keysLoop([schema |-> sch, extraneousKeysArr |-> ObjectKeys(d),
                         results |-> <<>>, calls |-> ev, thrown |-> <<>>],
                        d, pre, LoopKeys(sch.keys, ObjectKeys(d)), 1))

-----------------------------------------------------------------------------
(* Inputs *)

MaxOptions == 3

MaxRounds == 2

(* sequences without repetition of at most n elements of S *)
RECURSIVE Arrangements(_, _)
Arrangements(S, n) ==
  IF n = 0 THEN {<<>>}
  ELSE LET shorter == Arrangements(S, n - 1)
           longest == {p \in shorter : Len(p) = n - 1}
       IN shorter \cup
          {Append(px[1], px[2]) :
             px \in {py \in longest \X S : \A i \in 1..Len(py[1]) : py[1][i] # py[2]}}

(* a condition written by the user that never set a priority and that
   rejects a missing value *)
userCondition == Custom("userCondition", <<>>, {"undefined"})

elementShape == Mapping(<<"a">>, <<Shim("isBoolean")>>)

OtherOptions == {required, userCondition, NotAFunction}

BareShims ==
  {Shim("isString"), Shim("isBoolean"), Shim("isNumeric"), Shim("isInteger"),
   Shim("isFunction"), Shim("isArray"), Shim("isObject"),
   IsCustom({"number", "undefined"}, "test fail"),
   IsAnyOf(<<Shim("isBoolean"), Shim("isString")>>)}

Composed(shim, S) == {And(shim, options) : options \in Arrangements(S, MaxOptions)}

(* the two object schemas the isAnyOf tests call equivalent *)
fooLiteral == Mapping(<<"a">>, <<And(Shim("isString"), <<required>>)>>)

fooShape == And(Shim("isObject"), <<ofShape(fooLiteral)>>)

(* isAnyOf over no alternative, over object schemas, with a literal between
   two shims, and with a literal that raises once it is entered *)
Unions ==
  {IsAnyOf(<<>>),
   IsAnyOf(<<fooLiteral>>),
   IsAnyOf(<<fooShape>>),
   IsAnyOf(<<Shim("isString"),
             Mapping(<<"a", "b">>, <<Shim("isString"), Shim("isNumeric")>>),
             Shim("isArray")>>),
   IsAnyOf(<<Shim("isString"),
             Mapping(<<"*", "a">>, <<Shim("isBoolean"), Shim("isBoolean")>>),
             Shim("isObject")>>)}

(* and(range(lower, upper)) on numbers and on arrays, each bound omitted or
   given *)
Ranges ==
  {And(shim, <<range(lower, upper)>>) :
     shim \in {Shim("isNumeric"), Shim("isArray")}, lower, upper \in {<<>>, <<0>>, <<1>>, <<2>>}}

Validators ==
  BareShims \cup Unions \cup Ranges
    \cup Composed(Shim("isString"),
               {required, notEmpty, inList(<<"one", "two">>), userCondition})
    \cup Composed(Shim("isNumeric"),
               {required, range(<<0>>, <<1>>), range(<<>>, <<1>>), range(<<1>>, <<>>)})
    \cup Composed(Shim("isArray"),
               {required, range(<<1>>, <<2>>), ofType(Shim("isNumeric")), ofType(elementShape)})
    \cup Composed(Shim("isObject"),
               {required, ofShape(elementShape), userCondition})
    \cup Composed(Shim("isBoolean"), OtherOptions)
    \cup Composed(IsCustom({"number", "undefined"}, "test fail"), OtherOptions)
    \cup Composed(IsAnyOf(<<Shim("isBoolean"), Shim("isString")>>), OtherOptions)

Values ==
  {Undefined, Null, Bool(TRUE), Num(0), Num(2), Num(9), Num(-2), NaN,
   Str(""), Str("one"), Str("x"), Fn,
   Arr(<<>>), Arr(<<Num(2), Str("x")>>), Arr(<<Str("x"), Bool(TRUE), Num(2)>>),
   Arr(<<Obj(<<"a">>, <<Bool(TRUE)>>), Obj(<<"b", "a">>, <<Num(2), Str("x")>>)>>),
   Obj(<<>>, <<>>), Obj(<<"a", "b">>, <<Str("x"), Num(2)>>)}

(* schemas that are object literals *)
LeafNodes == {Shim("isBoolean"), And(Shim("isString"), <<required>>)}

ChildNodes ==
  LeafNodes
    \cup {Mapping(<<"c">>, <<l>>) : l \in LeafNodes}
    \cup {Mapping(<<"*">>, <<Shim("isBoolean")>>), Mapping(<<>>, <<>>),
          Mapping(<<"*", "c">>, <<Shim("isBoolean"), Shim("isBoolean")>>)}

(* literals with a key whose schema value is undefined *)
Unfinished ==
  {Mapping(<<"a", "b">>, <<l, NoSchema>>) : l \in LeafNodes}
    \cup {Mapping(<<"a", "b">>, <<NoSchema, Shim("isBoolean")>>),
          Mapping(<<"a", "b">>, <<Mapping(<<"c">>, <<NoSchema>>), Shim("isBoolean")>>),
          Mapping(<<"*">>, <<NoSchema>>)}

Literals ==
  Unfinished
    \cup {Mapping(<<"a", "b">>, <<n1, n2>>) : n1 \in ChildNodes, n2 \in LeafNodes}
    \cup {Mapping(<<"*">>, <<n>>) : n \in ChildNodes}
    \cup {Mapping(<<"a", "*">>, <<l, l>>) : l \in LeafNodes}
    \cup {Mapping(<<"a">>, <<Mapping(<<"b">>, <<Mapping(<<"c">>, <<l>>)>>)>>) : l \in LeafNodes}

(* user functions that return something else than true or a message, as a
   child of a literal: by themselves, as the shim of and(), as a condition
   of and(), as an alternative of isAnyOf and as the element type of ofType *)
OddLeaves ==
  UNION {{Returning({"string"}, ret),
          And(Returning({"string"}, ret), <<required>>),
          And(Shim("isString"),
              <<CustomReturning("userCondition", <<3>>, {"string"}, ret), notEmpty>>),
          IsAnyOf(<<Returning({"string"}, ret), Shim("isString")>>),
          And(Shim("isArray"), <<ofType(Returning({"string"}, ret))>>)} :
           ret \in {False, NoValue, Zero, Errors(<<>>), Message("test fail")}}
    \cup {And(Shim("isArray"), <<ofType(Shim("isNumeric"))>>)}

OddLiterals == {Mapping(<<"a", "b">>, <<leaf, Shim("isBoolean")>>) : leaf \in OddLeaves}

MaxDataKeys == 2

Objects ==
  UNION {{Obj(keys, vals) : vals \in [1..Len(keys) ->
                                      {Str("x"), Null, Arr(<<Bool(TRUE)>>), Obj(<<>>, <<>>),
                                      Obj(<<"d", "c">>, <<Num(2), Str("x")>>)}]} :
           keys \in Arrangements({"a", "b", "c"}, MaxDataKeys)}

LiteralData ==
  Objects \cup {Undefined, Null, Arr(<<Obj(<<>>, <<>>)>>), Str("x"),
                (* a key of the data that reads like a path *)
                Obj(<<"a", "a.c">>, <<Obj(<<"d", "c">>, <<Num(2), Str("x")>>), Str("x")>>),
                Obj(<<"b">>, <<Obj(<<"b">>, <<Obj(<<"c">>, <<Num(2)>>)>>)>>),
                Obj(<<"a">>, <<Obj(<<"b">>, <<Obj(<<"d">>, <<Num(2)>>)>>)>>)}

Prefixes == {"", "p"}

-----------------------------------------------------------------------------
(* The state machine: a caller holds a schema and a data value, calls the
   library, and may call it again with the same arguments. *)

Idle == [kind |-> "none"]

(* nothing was assigned yet to the closure variable and to the global *)
NotAssigned == [result |-> NoValue, global |-> NoValue]

(* toKeys was not applied *)
NotConverted == [t |-> "undefined"]

Init ==
  /\ engine \in Engines
  /\ \/ schema \in Validators /\ data \in Values /\ prefix \in Prefixes
     \/ schema \in Literals /\ data \in LiteralData /\ prefix \in Prefixes
          /\ engine = "timsort"
     \/ schema \in OddLiterals /\ prefix \in Prefixes
          /\ data \in
               {Obj(<<"a", "b">>, <<a, b>>) :
                  a \in {Str("x"), Num(2), Arr(<<Str("x"), Num(2)>>)},
                  b \in {Bool(TRUE), Str("x")}}
                 \cup {Obj(<<"b">>, <<Bool(TRUE)>>), Obj(<<"c", "a">>, <<Num(2), Str("x")>>)}
          /\ engine = "timsort"
  /\ written = schema
  /\ pc = "ready"
  /\ outcome = Idle
  /\ calls = <<>>
  /\ round = 0
  /\ tasks = <<>>
  /\ keyErrors = NotConverted
  /\ env = NotAssigned

(* await validateData(schema, data, prefix) *)
CallValidateData ==
  /\ pc = "ready"
  /\ LET r == validateData(schema, data, prefix)
     IN /\ outcome' = r.res
        /\ calls' = r.calls
        /\ schema' = r.node
  /\ pc' = "validated"
  /\ round' = round + 1
  /\ UNCHANGED <<engine, written, data, prefix, tasks, keyErrors, env>>

(* await validator(data): a shim or a composed validator called directly *)
CallValidator ==
  /\ pc = "ready"
  /\ IsFunction(schema)
  /\ prefix = ""
  /\ LET r == invoke(schema, data, "")
     IN /\ outcome' = r.res
        /\ calls' = r.calls
        /\ schema' = r.node
  /\ pc' = "called"
  /\ round' = round + 1
  /\ UNCHANGED <<engine, written, data, prefix, tasks, keyErrors, env>>

(* the caller drops the previous result and goes on to use the same schema
   (as the in-place sort left it) and the same data again *)
Reuse ==
  /\ pc \in {"validated", "called"}
  /\ round < MaxRounds
  /\ pc' = "ready"
  /\ outcome' = Idle
  /\ calls' = <<>>
  /\ UNCHANGED <<engine, written, schema, data, prefix, round, tasks, keyErrors, env>>

(* schema = shim.and(...options): attachOptions gave the shim its and(),
   which returns the function validate (utils.js lines 7-36); the caller
   holds that validator from now on *)
CallAnd ==
  /\ pc = "ready"
  /\ schema.tag = "shim"
  /\ \E v \in Validators :
       /\ v.tag = "and"
       /\ v.shim = schema
       /\ schema' = v
       /\ written' = v
  /\ UNCHANGED <<engine, data, prefix, pc, outcome, calls, round, tasks, keyErrors, env>>

(* validator.and(...more) on what shim.and(...) returned: validate is a
   plain function that was given no and property (utils.js lines 8-35), so
   the call is a call of undefined *)
CallAndOnValidator ==
  /\ pc = "ready"
  /\ schema.tag = "and"
  /\ outcome' = Thrown("TypeError: validator.and is not a function")
  /\ pc' = "chained"
  /\ UNCHANGED <<engine, written, schema, data, prefix, calls, round, tasks, keyErrors, env>>

Next == CallValidateData \/ CallValidator \/ Reuse \/ CallAnd \/ CallAndOnValidator

Spec == Init /\ [][Next]_vars

TypeOK ==
  /\ engine \in Engines
  /\ keyErrors = NotConverted
  /\ env = NotAssigned
  /\ pc \in {"ready", "validated", "called", "chained"}
  /\ tasks = <<>>
  /\ outcome.kind \in {"none", "true", "string", "array", "throw"}
  /\ outcome.kind = "array" => Len(outcome.errs) > 0
  /\ round \in 0..MaxRounds

-----------------------------------------------------------------------------
(* Vocabulary of the properties *)

(* a call has returned or thrown *)
Done == pc \in {"validated", "called"}

(* the depth in the log of the function the caller handed over: validateData
   logs itself above it *)
TopDepth == IF pc = "validated" THEN 1 ELSE 0

Range(seq) == {seq[i] : i \in 1..Len(seq)}

ErrorsOf(result) == IF result.kind = "array" THEN result.errs ELSE <<>>

(* the dotted path of key under a prefix *)
Dotted(pre, key) == IF pre = "" THEN key ELSE pre \o "." \o key

(* key is the path, or a path beneath it *)
AtOrBeneath(key, path) ==
  \/ key = path
  \/ Len(key) > Len(path) /\ SubSeq(key, 1, Len(path) + 1) = path \o "."

(* no other key of the data is a path that leads to key k *)
OwnPath(d, k) == \A k2 \in Range(ObjectKeys(d)) : AtOrBeneath(k, k2) => k = k2

(* what the validator's shim and its conditions did, in order: the first
   entry is the shim, the others are the conditions invoked *)
AtOptionDepth(e) == e.depth = TopDepth + 1

ValidatorLevel == SelectSeq(calls, AtOptionDepth)

ConditionsInvoked == Tail(ValidatorLevel)

ShimResult == invoke(written.shim, data, prefix).res

IsFunctionOption(c) == c.c # "notAFunction"

IsBuiltIn(c) == IsFunctionOption(c) /\ ~IsCustomCondition(c)

(* the priorities the documentation gives the built-in conditions *)
DocumentedPriority(op) ==
  CASE op = "required" -> 3
    [] op \in {"notEmpty", "inList", "range"} -> 2
    [] op \in {"ofType", "ofShape"} -> 0

-----------------------------------------------------------------------------
(* C1: for a validator built with and(), the shim is called first, and when
   the shim's result is not true no condition is invoked and the validator
   returns exactly the shim's result. *)
C1_PredicateFailureIsReturned ==
  (Done /\ written.tag = "and") =>
    /\ Len(ValidatorLevel) >= 1
    /\ ValidatorLevel[1].op = written.shim.name
    /\ ShimResult.kind # "true" =>
         /\ outcome = ShimResult
         /\ ConditionsInvoked = <<>>

(* isString.and(inList(['one','two']), ...)(0): the shim fails on a
   validator that has conditions *)
C1_Witness ==
  /\ pc = "called"
  /\ written.tag = "and"
  /\ written.shim = Shim("isString")
  /\ Len(written.options) >= 2
  /\ data = Num(0)
  /\ outcome = Message("value is not a string")

(* C2: when the shim passes, the built-in conditions given to and() are
   invoked in descending priority (required 3, notEmpty/inList/range 2,
   ofType/ofShape 0) whatever the order of the arguments; a condition is
   invoked only after every condition of higher priority returned true; the
   first result that is not true is the validator's result and nothing is
   invoked after it; true is the result when all pass. *)
C2_DescendingPriorityShortCircuit ==
  (/\ Done
   /\ written.tag = "and"
   /\ \A c \in Range(written.options) : IsBuiltIn(c)
   /\ ShimResult.kind = "true") =>
    LET opts == schema.options
        n == Len(ConditionsInvoked)
        ResultOf(i) == callCondition(opts[i], data, prefix).res
    IN /\ Len(opts) = Len(written.options)
       /\ Range(opts) = Range(written.options)
       /\ n <= Len(opts)
       /\ \A i \in 1..n : ConditionsInvoked[i].op = opts[i].c
       /\ \A i, j \in 1..n :
            i < j => DocumentedPriority(ConditionsInvoked[i].op)
                       >= DocumentedPriority(ConditionsInvoked[j].op)
       /\ \A i \in 1..n : \A j \in (n+1)..Len(opts) :
            DocumentedPriority(opts[j].c) <= DocumentedPriority(opts[i].c)
       /\ \A i \in 1..(n-1) : ResultOf(i).kind = "true"
       /\ n < Len(opts) => n >= 1 /\ ResultOf(n).kind # "true"
       /\ outcome = IF n = 0 THEN True ELSE ResultOf(n)
       /\ (\A i \in 1..Len(opts) : ResultOf(i).kind = "true") =>
            n = Len(opts) /\ outcome = True

(* isArray.and(ofType(isNumeric), range(1, 2), required) on an array of
   three elements: range fails and ofType never runs *)
C2_Witness ==
  /\ pc = "called"
  /\ written.tag = "and"
  /\ written.options = <<ofType(Shim("isNumeric")), range(<<1>>, <<2>>), required>>
  /\ data = Arr(<<Str("x"), Bool(TRUE), Num(2)>>)
  /\ outcome = Message("array size falls outside of range (1, 2)")
  /\ \A i \in 1..Len(calls) : calls[i].op # "ofType"

(* C3: a validator whose conditions include required and any other condition
   C, called with undefined, returns 'value is required but missing'. *)
C3_RequiredWinsOnUndefined ==
  (/\ Done
   /\ written.tag = "and"
   /\ data = Undefined
   /\ required \in Range(written.options)
   /\ Len(written.options) >= 2
   /\ \A c \in Range(written.options) : IsFunctionOption(c)) =>
    outcome = Message("value is required but missing")

(* C4: and(range(lower, upper)) without required returns true for
   undefined, whatever the bounds. *)
C4_RangeAcceptsUndefined ==
  (/\ Done
   /\ written.tag = "and"
   /\ data = Undefined
   /\ Len(written.options) = 1
   /\ written.options[1].c = "range") =>
    outcome = True

(* C5: isArray.and(ofType(elementSchema)) without required returns true for
   undefined and does not raise. *)
C5_OfTypeAcceptsUndefined ==
  (/\ Done
   /\ written.tag = "and"
   /\ written.shim = Shim("isArray")
   /\ data = Undefined
   /\ Len(written.options) = 1
   /\ written.options[1].c = "ofType") =>
    outcome = True

-----------------------------------------------------------------------------
(* Vocabulary of the properties about object literals *)

HasWildcard(node) == IndexOf(node.keys, "*") > 0

Keyed(result, path) == {i \in 1..Len(ErrorsOf(result)) : ErrorsOf(result)[i].key = path}

(* the visits the top-level traversal made to its own declared keys *)
IsVisit(e) == e.depth = 1 /\ e.op = "validateData"

Visits == SelectSeq(calls, IsVisit)

(* the entries a parent reports for a child's result *)
Reported(path, result) ==
  CASE result.kind = "string" -> <<ValidationError(path, result.msg)>>
    [] result.kind = "array" -> result.errs
    [] OTHER -> <<>>

ConflictMessage == "Schema wildcard conflict. A wildcard can not have sibling keys"

-----------------------------------------------------------------------------
(* C6: in validateData on an object literal, a declared key whose schema
   node is an object literal and whose data is undefined is skipped, and
   neither it nor anything declared beneath it (not even a required leaf)
   yields an error; a declared key whose schema node is a function is
   invoked even when its data is undefined, so a required leaf yields 'value
   is required but missing' at its dotted path. *)
C6_AbsentBranchSkippedLeafInvoked ==
  (/\ pc = "validated"
   /\ written.tag = "mapping"
   /\ ~HasWildcard(written)
   /\ data.t \in {"object", "undefined"}
   /\ outcome.kind # "throw") =>
    \A i \in 1..Len(written.keys) :
      LET node == written.nodes[i]
          value == Get(data, written.keys[i])
          path == Dotted(prefix, written.keys[i])
      IN /\ (node.tag = "mapping" /\ value.t = "undefined") =>
              /\ \A j \in 1..Len(calls) :
                   calls[j].depth >= 1 => ~AtOrBeneath(calls[j].path, path)
              /\ \A e \in Range(ErrorsOf(outcome)) : ~AtOrBeneath(e.key, path)
         /\ IsFunction(node) =>
              /\ \E j \in 1..Len(calls) :
                   /\ IsVisit(calls[j]) /\ calls[j].path = path
                   /\ j < Len(calls)
                   /\ calls[j + 1].depth = 2
                   /\ calls[j + 1].path = path
                   /\ calls[j + 1].op = IF node.tag = "and" THEN "and" ELSE node.name
              /\ (/\ value.t = "undefined"
                  /\ node.tag = "and"
                  /\ required \in Range(node.options)) =>
                   ValidationError(path, "value is required but missing")
                     \in Range(ErrorsOf(outcome))

(* { a: { c: isString.and(required) }, b: isString.and(required) } against
   {}: a is skipped together with its required leaf, b is reported *)
C6_Witness ==
  /\ pc = "validated"
  /\ written = Mapping(<<"a", "b">>,
                       <<Mapping(<<"c">>, <<And(Shim("isString"), <<required>>)>>),
                         And(Shim("isString"), <<required>>)>>)
  /\ data = Obj(<<>>, <<>>)
  /\ prefix = "p"
  /\ outcome = Errors(<<ValidationError("p.b", "value is required but missing")>>)

(* C7: for an object literal without a wildcard and object data, every key
   of the data that the literal does not declare yields exactly one
   'extraneous key found' error at <prefix>.<key> (or <key> at the root), no
   declared key yields one, and these errors are the last entries of the
   level's result, in the order of the data's keys (the count is taken for
   the keys whose path no other key of the data leads to). *)
C7_ExtraneousKeysReportedLast ==
  (/\ pc = "validated"
   /\ written.tag = "mapping"
   /\ ~HasWildcard(written)
   /\ data.t = "object"
   /\ outcome.kind # "throw") =>
    LET E == ErrorsOf(outcome)
        IsExtra(k) == k \notin Range(written.keys)
        extra == SelectSeq(data.keys, IsExtra)
        m == Len(extra)
        Count(key) ==
          Cardinality({i \in 1..Len(E) :
                         E[i].key = key /\ E[i].error = "extraneous key found"})
    IN /\ Len(E) >= m
       /\ \A i \in 1..m :
            E[Len(E) - m + i]
              = ValidationError(Dotted(prefix, extra[i]), "extraneous key found")
       /\ \A k \in Range(data.keys) :
            OwnPath(data, k) => Count(Dotted(prefix, k)) = IF IsExtra(k) THEN 1 ELSE 0
       /\ \A k \in Range(written.keys) : Count(Dotted(prefix, k)) = 0

(* { a: { c: isBoolean }, b: isBoolean } against { c: 'x', a: { d: 1, c: 'x' } }:
   the errors under a come first, the root's extraneous key last *)
C7_Witness ==
  /\ pc = "validated"
  /\ written = Mapping(<<"a", "b">>,
                       <<Mapping(<<"c">>, <<Shim("isBoolean")>>), Shim("isBoolean")>>)
  /\ data = Obj(<<"c", "a">>, <<Str("x"), Obj(<<"d", "c">>, <<Num(2), Str("x")>>)>>)
  /\ prefix = ""
  /\ outcome = Errors(<<ValidationError("a.c", "value is not a boolean"),
                        ValidationError("a.d", "extraneous key found"),
                        ValidationError("c", "extraneous key found")>>)

(* an object literal that declares '*' together with another key *)
Conflicting(node) == node.tag = "mapping" /\ HasWildcard(node) /\ Len(node.keys) > 1

RECURSIVE ContainsConflict(_)
ContainsConflict(node) ==
  /\ node.tag = "mapping"
  /\ \/ Conflicting(node)
     \/ \E i \in 1..Len(node.nodes) : ContainsConflict(node.nodes[i])

(* the traversal enters a conflicting literal: the literal is the schema of
   the call, or the data at every key leading to it is a plain object *)
RECURSIVE ReachesConflict(_, _)
ReachesConflict(node, d) ==
  /\ node.tag = "mapping"
  /\ d.t \in {"object", "undefined"}
  /\ \/ Conflicting(node)
     \/ /\ HasWildcard(node)
        /\ \E i \in 1..Len(ObjectKeys(d)) :
             d.vals[i].t = "object" /\ ReachesConflict(node.nodes[1], d.vals[i])
     \/ /\ ~HasWildcard(node)
        /\ \E i \in 1..Len(node.keys) :
             /\ Get(d, node.keys[i]).t = "object"
             /\ ReachesConflict(node.nodes[i], Get(d, node.keys[i]))

(* C8 as claimed: a schema that contains, at any depth, an object literal
   declaring '*' together with another key makes the call raise the wildcard
   conflict error, for every data value. *)
C8_ConflictAlwaysRaises ==
  (pc = "validated" /\ ContainsConflict(written)) => outcome = Thrown(ConflictMessage)

(* C8 as amended: the call raises the wildcard conflict error exactly when
   the traversal enters the conflicting literal, that is when the data at
   its position is a plain object (or it is the schema of the call and the
   data is undefined); a conflicting literal whose data is absent is
   skipped, and one whose data is null, an array or a scalar yields 'value
   is not an object', without raising (for the literals in which nothing
   else raises). *)
C8_ConflictRaisesWhenReached ==
  (pc = "validated" /\ written.tag = "mapping"
     /\ written \notin Unfinished \cup OddLiterals) =>
    /\ (outcome = Thrown(ConflictMessage)) <=> ReachesConflict(written, data)
    /\ outcome.kind = "throw" => outcome = Thrown(ConflictMessage)

(* { a: { '*': isBoolean, c: isBoolean }, b: ... } against { a: {} } *)
C8_Witness ==
  /\ pc = "validated"
  /\ written.tag = "mapping"
  /\ written.keys = <<"a", "b">>
  /\ Conflicting(written.nodes[1])
  /\ data = Obj(<<"a">>, <<Obj(<<>>, <<>>)>>)
  /\ outcome = Thrown(ConflictMessage)

(* what a wildcard level should report: the children's reports, one data key
   after the other *)
RECURSIVE WildcardReports(_, _, _, _)
WildcardReports(node, d, pre, i) ==
  IF i > Len(d.keys) THEN <<>>
  ELSE Reported(Dotted(pre, d.keys[i]),
                validateData(node, d.vals[i], Dotted(pre, d.keys[i])).res)
         \o WildcardReports(node, d, pre, i + 1)

(* C9: for an object literal whose only key is '*' and object data, the
   wildcard's schema node is applied to every key of the data exactly once,
   in the order of the data's keys, with the path <prefix>.<dataKey>; the
   result is the children's errors in that order, and no key of the data is
   reported as extraneous (a key that reads like a path beneath another key
   of the data shares its path with what that key's child reports, so it is
   left to the equality before). *)
C9_WildcardVisitsEveryKeyOnce ==
  (/\ pc = "validated"
   /\ written.tag = "mapping"
   /\ written.keys = <<"*">>
   /\ data.t = "object"
   /\ outcome.kind # "throw") =>
    /\ Len(Visits) = Len(data.keys)
    /\ \A i \in 1..Len(Visits) : Visits[i].path = Dotted(prefix, data.keys[i])
    /\ ErrorsOf(outcome) = WildcardReports(written.nodes[1], data, prefix, 1)
    /\ \A k \in Range(data.keys) :
         OwnPath(data, k) =>
           ValidationError(Dotted(prefix, k), "extraneous key found")
             \notin Range(ErrorsOf(outcome))

(* { '*': { c: isString.and(required) } } against { b: {}, a: 'x' } *)
C9_Witness ==
  /\ pc = "validated"
  /\ written = Mapping(<<"*">>, <<Mapping(<<"c">>, <<And(Shim("isString"), <<required>>)>>)>>)
  /\ data = Obj(<<"b", "a">>, <<Obj(<<>>, <<>>), Str("x")>>)
  /\ prefix = "p"
  /\ outcome = Errors(<<ValidationError("p.b.c", "value is required but missing"),
                        ValidationError("p.a", "value is not an object")>>)

(* C10: an object literal that meets data that is null, an array or a scalar
   yields exactly one error, 'value is not an object', at its own dotted
   path (the bare message when it is the schema of the call); none of its
   declared keys is visited and nothing is reported beneath it. *)
C10_LiteralRejectsNonObject ==
  (pc = "validated" /\ written.tag = "mapping") =>
    /\ data.t \notin {"object", "undefined"} =>
         /\ outcome = Message("value is not an object")
         /\ calls = <<Event("validateData", prefix)>>
    /\ (data.t = "object" /\ ~HasWildcard(written) /\ outcome.kind # "throw") =>
         \A i \in 1..Len(written.keys) :
           LET node == written.nodes[i]
               value == Get(data, written.keys[i])
               path == Dotted(prefix, written.keys[i])
               E == ErrorsOf(outcome)
           IN (node.tag = "mapping" /\ value.t \notin {"object", "undefined"}) =>
                /\ Cardinality({j \in 1..Len(E) : AtOrBeneath(E[j].key, path)}) = 1
                /\ ValidationError(path, "value is not an object") \in Range(E)
                /\ \E j \in 1..Len(calls) : IsVisit(calls[j]) /\ calls[j].path = path
                /\ \A j \in 1..Len(calls) :
                     (IsVisit(calls[j]) /\ calls[j].path = path) =>
                       (j = Len(calls) \/ calls[j + 1].depth <= 1)

(* { a: { c: isString.and(required) }, b: isBoolean } against { a: [true] } *)
C10_Witness ==
  /\ pc = "validated"
  /\ written = Mapping(<<"a", "b">>,
                       <<Mapping(<<"c">>, <<And(Shim("isString"), <<required>>)>>),
                         Shim("isBoolean")>>)
  /\ data = Obj(<<"a">>, <<Arr(<<Bool(TRUE)>>)>>)
  /\ prefix = ""
  /\ outcome = Errors(<<ValidationError("a", "value is not an object")>>)

-----------------------------------------------------------------------------
(* Vocabulary of the properties about unions *)

(* the name under which a schema node that is invoked appears in the log *)
OpOf(node) ==
  CASE node.tag = "mapping" -> "validateData"
    [] node.tag = "and" -> "and"
    [] OTHER -> node.name

(* what an alternative, taken alone, makes of the value *)
AlternativeResult(type, value) ==
  IF type.tag = "mapping"
  THEN validateData(type, value, "").res
  ELSE invoke(type, value, "").res

(* the invocations made directly by the function the caller handed over *)
Alternatives == SelectSeq(calls, AtOptionDepth)

NoMatch == Message("value failed to match one of the the allowed types")

(* C11: isAnyOf(alternatives) on a value that is not undefined tries the
   alternatives in list order, a literal through validateData and a function
   by calling it; it returns true at the first alternative whose result is
   true and invokes none after it; when no alternative returns true (the
   empty list included) it returns the single message 'value failed to match
   one of the the allowed types'. *)
C11_UnionFirstMatchInOrder ==
  (/\ Done
   /\ written.tag = "shim"
   /\ written.name = "isAnyOf"
   /\ data # Undefined
   /\ outcome.kind # "throw") =>
    LET types == written.types
        n == Len(types)
        accepting == {i \in 1..n : AlternativeResult(types[i], data) = True}
        tried == IF accepting = {} THEN n
                 ELSE CHOOSE i \in accepting : \A j \in accepting : i <= j
    IN /\ Len(Alternatives) = tried
       /\ \A i \in 1..tried :
            /\ Alternatives[i].op = OpOf(types[i])
            /\ Alternatives[i].path = ""
       /\ outcome = IF accepting = {} THEN NoMatch ELSE True

(* isAnyOf([isString, { a: isString, b: isNumeric }, isArray]) on
   { a: 'x', b: 1 }: the literal accepts and isArray is never called *)
C11_Witness ==
  /\ pc = "called"
  /\ written.tag = "shim"
  /\ written.name = "isAnyOf"
  /\ Len(written.types) = 3
  /\ written.types[2] = Mapping(<<"a", "b">>, <<Shim("isString"), Shim("isNumeric")>>)
  /\ data = Obj(<<"a", "b">>, <<Str("x"), Num(2)>>)
  /\ outcome = True
  /\ \A i \in 1..Len(calls) : calls[i].op # "isArray"

(* C12: every bare type predicate returns true for undefined, and isCustom
   and isAnyOf do so without invoking the user function or an alternative:
   nothing is invoked beneath the predicate. *)
C12_UndefinedPassesUninvoked ==
  (Done /\ written.tag = "shim" /\ data = Undefined) =>
    /\ outcome = True
    /\ calls = IF pc = "validated"
               THEN <<Event("validateData", prefix)>> \o Bump(<<Event(written.name, prefix)>>)
               ELSE <<Event(written.name, "")>>

(* isCustom(f)(undefined), f a function that rejects undefined *)
C12_Witness ==
  /\ pc = "called"
  /\ written = IsCustom({"number", "undefined"}, "test fail")
  /\ CustomResult(written.rejects, written.msg, data) = Message("test fail")
  /\ data = Undefined
  /\ outcome = True

-----------------------------------------------------------------------------
(* Vocabulary of the properties about arrays *)

(* the last invocation made directly by the validator: the condition whose
   result the validator returns *)
LastCondition ==
  CHOOSE j \in 1..Len(calls) :
    /\ AtOptionDepth(calls[j])
    /\ \A k \in (j + 1)..Len(calls) : ~AtOptionDepth(calls[k])

AtElementDepth(e) == e.depth = TopDepth + 2

(* the invocations that condition made for the elements *)
ElementVisits == SelectSeq(SubSeq(calls, LastCondition + 1, Len(calls)), AtElementDepth)

(* the path of the element at index i (from 0) *)
IndexPath(pre, i) == Dotted(pre, IntStr(i))

(* what ofType should report: each element's report, by index *)
RECURSIVE ElementReports(_, _, _, _)
ElementReports(type, items, pre, i) ==
  IF i > Len(items) THEN <<>>
  ELSE Reported(IndexPath(pre, i - 1),
                validateData(type, items[i], IndexPath(pre, i - 1)).res)
         \o ElementReports(type, items, pre, i + 1)

(* the index of the element an entry belongs to, -1 if none *)
ElementOf(key, pre, n) ==
  IF \E i \in 0..(n - 1) : AtOrBeneath(key, IndexPath(pre, i))
  THEN CHOOSE i \in 0..(n - 1) : AtOrBeneath(key, IndexPath(pre, i))
  ELSE -1

(* C13: ofType(elementSchema) applied to an array checks every element, one
   after the other by index, whatever the earlier elements yielded, and
   returns the concatenation in index order of the elements' errors: a leaf
   failure of element i is keyed <prefix>.<i> (<i> under the empty prefix),
   the errors of a literal element are keyed beneath <prefix>.<i>; an
   element that is valid adds nothing, and the result is true exactly when
   no element yielded an error, as for the empty array. *)
C13_OfTypeReportsEveryElement ==
  (/\ Done
   /\ written.tag = "and"
   /\ data.t = "array"
   /\ outcome.kind # "throw"
   /\ Len(ConditionsInvoked) >= 1
   /\ ConditionsInvoked[Len(ConditionsInvoked)].op = "ofType") =>
    LET type == schema.options[Len(ConditionsInvoked)].type
        n == Len(data.items)
        E == ErrorsOf(outcome)
        expected == ElementReports(type, data.items, prefix, 1)
    IN /\ Len(ElementVisits) = n
       /\ \A i \in 1..n : ElementVisits[i].path = IndexPath(prefix, i - 1)
       /\ outcome = IF expected = <<>> THEN True ELSE Errors(expected)
       /\ \A j \in 1..Len(E) : ElementOf(E[j].key, prefix, n) >= 0
       /\ \A j, k \in 1..Len(E) :
            j < k => ElementOf(E[j].key, prefix, n) <= ElementOf(E[k].key, prefix, n)
       /\ IsFunction(type) =>
            \A j \in 1..Len(E) : E[j].key = IndexPath(prefix, ElementOf(E[j].key, prefix, n))
       /\ type.tag = "mapping" =>
            \A j \in 1..Len(E) :
              \/ E[j].error = "value is not an object"
              \/ E[j].key # IndexPath(prefix, ElementOf(E[j].key, prefix, n))
       /\ n = 0 => outcome = True

(* isArray.and(ofType(isNumeric)) on ['x', true, 1] under the prefix p: the
   first element fails and the second is still checked *)
C13_Witness ==
  /\ pc = "validated"
  /\ written = And(Shim("isArray"), <<ofType(Shim("isNumeric"))>>)
  /\ data = Arr(<<Str("x"), Bool(TRUE), Num(2)>>)
  /\ prefix = "p"
  /\ outcome = Errors(<<ValidationError("p.0", "value is not a number"),
                        ValidationError("p.1", "value is not a number")>>)

-----------------------------------------------------------------------------
(* Vocabulary of the properties about range *)

(* the quantity range measures, on the doubled scale; none for NaN *)
Measured(v) ==
  IF v.t = "array" THEN <<2 * Len(v.items)>>
  ELSE IF IsNaN(v) THEN <<>>
  ELSE <<v.twice>>

(* m >= lower and m <= upper; a comparison with NaN is false *)
AtLeast(m, bound) == Len(m) = 1 /\ m[1] >= 2 * bound[1]

AtMost(m, bound) == Len(m) = 1 /\ m[1] <= 2 * bound[1]

(* C14: range(lower, upper) returns true for a number or an array v exactly
   when (lower is omitted or m >= lower) and (upper is omitted or
   m <= upper), m being the length of an array and the value of a number. *)
C14_RangeInclusiveBounds ==
  (/\ Done
   /\ written.tag = "and"
   /\ Len(written.options) = 1
   /\ written.options[1].c = "range"
   /\ data.t \in {"number", "array"}
   /\ ShimResult = True) =>
    LET lower == written.options[1].lower
        upper == written.options[1].upper
        m == Measured(data)
    IN (outcome = True) <=>
         /\ Len(lower) = 0 \/ AtLeast(m, lower)
         /\ Len(upper) = 0 \/ AtMost(m, upper)

-----------------------------------------------------------------------------
(* C15: the validator returned by and(...) can itself be chained with
   and(...more): the call returns a validator on the same base predicate
   whose conditions are those of both calls. *)
C15_ChainingAccumulates ==
  pc = "chained" =>
    /\ outcome.kind # "throw"
    /\ schema.tag = "and"
    /\ schema.shim = written.shim
    /\ Len(schema.options) >= Len(written.options)
    /\ \A i \in 1..Len(written.options) :
         \E j \in 1..Len(schema.options) : schema.options[j] = written.options[i]

-----------------------------------------------------------------------------
(* Vocabulary of the properties about literals and ofShape *)

(* isObject.and(ofShape(L)) *)
Shaped(L) == And(Shim("isObject"), <<ofShape(L)>>)

IsLiteral(node) == node.tag = "mapping"

(* the schema with the literal that is the child at key i of a literal
   written as isObject.and(ofShape(...)) *)
ChildSwaps(node) ==
  IF IsLiteral(node)
  THEN {[node EXCEPT !.nodes[i] = Shaped(@)] :
          i \in {j \in 1..Len(node.nodes) : IsLiteral(node.nodes[j])}}
  ELSE {}

(* likewise for an alternative of isAnyOf *)
AlternativeSwaps(node) ==
  IF node.tag = "shim" /\ node.name = "isAnyOf"
  THEN {[node EXCEPT !.types[i] = Shaped(@)] :
          i \in {j \in 1..Len(node.types) : IsLiteral(node.types[j])}}
  ELSE {}

(* likewise for the element type of ofType *)
ElementSwaps(node) ==
  IF node.tag = "and"
  THEN {[node EXCEPT !.options[i].type = Shaped(@)] :
          i \in {j \in 1..Len(node.options) :
                    node.options[j].c = "ofType" /\ IsLiteral(node.options[j].type)}}
  ELSE {}

(* likewise for the schema of the call *)
TopSwaps(node) == IF IsLiteral(node) THEN {Shaped(node)} ELSE {}

Swaps(node) ==
  TopSwaps(node) \cup ChildSwaps(node) \cup AlternativeSwaps(node) \cup ElementSwaps(node)

(* C16: an object literal L and isObject.and(ofShape(L)) without required
   are equivalent schema nodes: at the same position (child of a literal,
   alternative of isAnyOf, element type of ofType, schema of the call) they
   yield the same result for every data value, absent data included. *)
C16_LiteralEquivalentToShape ==
  (pc = "validated" /\ round = 1) =>
    \A swapped \in Swaps(written) : validateData(swapped, data, prefix).res = outcome

-----------------------------------------------------------------------------
(* C17 as claimed: a call validateData(schema, data) that returns resolves
   to true or to a non-empty list of {key, error} entries and to nothing
   else, for every schema (literal or function) and every data value. *)
C17_TrueOrNonEmptyList ==
  (pc = "validated" /\ outcome.kind # "throw") =>
    \/ outcome = True
    \/ outcome.kind = "array" /\ Len(outcome.errs) > 0

(* C17 as amended: a call validateData(schema, data) that returns resolves
   to true, to a non-empty list of {key, error} entries, or to a single
   message; never to an empty list.  The message is what a function schema
   returned (validateData hands back the function's own result), or 'value
   is not an object' when a literal schema meets data that is null, an array
   or a scalar; a literal schema on an object or on undefined never resolves
   to a message. *)
C17_TrueListOrMessage ==
  (pc = "validated" /\ outcome.kind # "throw") =>
    /\ \/ outcome = True
       \/ outcome.kind = "array" /\ Len(outcome.errs) > 0
       \/ outcome.kind = "string"
    /\ outcome.kind = "string" =>
         \/ IsFunction(written)
         \/ /\ data.t \notin {"object", "undefined"}
            /\ outcome = Message("value is not an object")
    /\ (written.tag = "mapping" /\ data.t \notin {"object", "undefined"}) =>
         outcome.kind = "string"
    /\ (IsFunction(written) /\ round = 1) => outcome = invoke(written, data, prefix).res

(* validateData(isCustom(f), 0) with f returning 'test fail' *)
C17_Witness ==
  /\ pc = "validated"
  /\ written = IsCustom({"number", "undefined"}, "test fail")
  /\ data = Num(0)
  /\ outcome = Message("test fail")

-----------------------------------------------------------------------------
(* C18: in the error list returned by one validateData call no two entries
   have the same key, for every schema and every data value. *)
C18_ErrorKeysUnique ==
  pc = "validated" =>
    LET E == ErrorsOf(outcome)
    IN \A i, j \in 1..Len(E) : i # j => E[i].key # E[j].key

-----------------------------------------------------------------------------
(* Vocabulary of the properties about the order of the errors *)

(* the declared keys the loop drills into: a function always, a literal
   when its data is there *)
Drilled(node, d) ==
  {i \in 1..Len(node.keys) :
     IsFunction(node.nodes[i]) \/ Get(d, node.keys[i]).t # "undefined"}

(* what the declared keys from the i-th on should report, whatever the keys
   before them yielded *)
RECURSIVE DeclaredReports(_, _, _, _)
DeclaredReports(node, d, pre, i) ==
  IF i > Len(node.keys) THEN <<>>
  ELSE (IF i \in Drilled(node, d)
        THEN Reported(Dotted(pre, node.keys[i]),
                      validateData(node.nodes[i], Get(d, node.keys[i]),
                                   Dotted(pre, node.keys[i])).res)
        ELSE <<>>)
         \o DeclaredReports(node, d, pre, i + 1)

(* the declared key an entry belongs to, 0 if none *)
DeclaredOf(key, node, pre) ==
  IF \E i \in 1..Len(node.keys) : AtOrBeneath(key, Dotted(pre, node.keys[i]))
  THEN CHOOSE i \in 1..Len(node.keys) : AtOrBeneath(key, Dotted(pre, node.keys[i]))
  ELSE 0

(* C19: an error at one declared key never stops the traversal.  For a
   literal schema (without a wildcard) and object data every declared key is
   taken in declaration order whatever the keys before it yielded (a
   function is invoked, a literal is entered when its data is there), and
   the list returned holds the errors of every failing declared key in
   declaration order, depth-first: all errors under a key precede all
   errors under a later sibling; the extraneous keys follow. *)
C19_ErrorsNeverStopTraversal ==
  (/\ pc = "validated"
   /\ written.tag = "mapping"
   /\ ~HasWildcard(written)
   /\ data.t = "object"
   /\ outcome.kind # "throw") =>
    LET E == ErrorsOf(outcome)
        declared == DeclaredReports(written, data, prefix, 1)
        drilled == Drilled(written, data)
        IsDrilled(k) == IndexOf(written.keys, k) \in drilled
        expectedVisits == SelectSeq(written.keys, IsDrilled)
    IN /\ Len(Visits) = Len(expectedVisits)
       /\ \A i \in 1..Len(Visits) : Visits[i].path = Dotted(prefix, expectedVisits[i])
       /\ Len(E) >= Len(declared)
       /\ SubSeq(E, 1, Len(declared)) = declared
       /\ \A i \in (Len(declared) + 1)..Len(E) : E[i].error = "extraneous key found"
       /\ \A i \in 1..Len(declared) : DeclaredOf(E[i].key, written, prefix) > 0
       /\ \A i, j \in 1..Len(declared) :
            i < j => DeclaredOf(E[i].key, written, prefix)
                       <= DeclaredOf(E[j].key, written, prefix)

(* { a: { c: isBoolean }, b: isString.and(required) } against
   { a: { d: 1, c: 'x' } }: a fails twice, and b is still checked *)
C19_Witness ==
  /\ pc = "validated"
  /\ written = Mapping(<<"a", "b">>,
                       <<Mapping(<<"c">>, <<Shim("isBoolean")>>),
                         And(Shim("isString"), <<required>>)>>)
  /\ data = Obj(<<"a">>, <<Obj(<<"d", "c">>, <<Num(2), Str("x")>>)>>)
  /\ prefix = ""
  /\ outcome = Errors(<<ValidationError("a.c", "value is not a boolean"),
                        ValidationError("a.d", "extraneous key found"),
                        ValidationError("b", "value is required but missing")>>)

-----------------------------------------------------------------------------
(* One call followed step by step.  Every call of a function the library
   awaits is a task: validateData, the validator that and() returned, ofType,
   ofShape, isAnyOf, and the leaves (a type shim, a user function, a simple
   condition).  A leaf is synchronous or asynchronous: a synchronous leaf
   has returned its value when the call comes back, an asynchronous one
   returns a promise and is pending until it resolves.  A task that awaits
   is suspended until the task it waits for has settled.  Tasks are kept in
   the order they were called. *)

(* const s = {}; s.a = s *)
selfLiteral == Mapping(<<"a">>, <<Ref("selfLiteral")>>)

(* const s = { b: isBoolean }; s.a = isObject.and(ofShape(s)) *)
selfShape ==
  Mapping(<<"b", "a">>,
          <<Shim("isBoolean"), And(Shim("isObject"), <<ofShape(Ref("selfShape"))>>)>>)

(* the object a property of a schema holds *)
Deref(node) ==
  IF node.tag = "ref"
  THEN IF node.name = "selfLiteral" THEN selfLiteral ELSE selfShape
  ELSE node

NewTask(op, node, value, path, parent) ==
  [op |-> op, node |-> node, value |-> value, path |-> path, parent |-> parent,
   st |-> IF op = "leaf" THEN "pending" ELSE "running", async |-> TRUE,
   i |-> 0, waiting |-> 0, results |-> <<>>, extra |-> <<>>, res |-> Idle]

(* the code that runs when the function value node is called with value *)
CalleeOp(node, value) ==
  IF "tag" \in DOMAIN node
  THEN IF node.tag = "and" THEN "and"
       ELSE IF node.name = "isAnyOf" /\ ~ReturnsEarly(value) THEN "isAnyOf"
       ELSE "leaf"
  ELSE IF node.c \in {"ofType", "ofShape"} THEN node.c
  ELSE "leaf"

(* what a leaf returns or resolves to *)
LeafResult(k) ==
  IF "tag" \in DOMAIN k.node
  THEN callShim(k.node, k.value, k.path).res
  ELSE callCondition(k.node, k.value, k.path).res

(* a leaf that is a plain function: it has returned when the call is over *)
Returned(k) == [k EXCEPT !.st = "settled", !.async = FALSE, !.res = LeafResult(k)]

(* node(value, path), the leaves being asynchronous or not *)
Call(node, value, path, parent, async) ==
  LET k == NewTask(CalleeOp(node, value), node, value, path, parent)
  IN IF k.op = "leaf" /\ ~async THEN Returned(k) ELSE k

(* the promise taken for the value: a call that was not awaited *)
ReceivedUnawaited(child) == IF child.async THEN [kind |-> "promise"] ELSE child.res

(* await f(...): the value f returned, or the value its promise settled to *)
Received(child) == child.res

(* the promise of the async function is fulfilled or rejected *)
Settle(k, res) == [k EXCEPT !.st = "settled", !.res = res]

(* return schema(data, prefix), return await validateData(...): the task
   settles as the task it called settles *)
Adopt(k, child) == [k EXCEPT !.st = "awaiting", !.waiting = child]

(* the await left out: the loop goes on while the call is in flight *)
AwaitForgotten(k, child) == [k EXCEPT !.i = @ + 1]

(* result = await f(...) in a loop (type-validation.js line 591,
   conditions.js lines 248 and 250, utils.js lines 9 and 28, types-complex.js
   lines 15 and 17): the task is suspended until the call has settled *)
Await(k, child) == [k EXCEPT !.st = "awaiting", !.waiting = child]

(* type-validation.js lines 539-616, up to the next await or to the end *)
StepValidateData(t, async) ==
  LET k == tasks[t]
      next == Len(tasks) + 1
      keys == LoopKeys(k.node.keys, ObjectKeys(k.value))
      schemaKey == keys[k.i]
      dataKey == DataKey(schemaKey, k.extra)
      schemaValue == Deref(k.node.nodes[IndexOf(k.node.keys, schemaKey)])
      dataValue == Get(k.value, dataKey)
      newPrefix == NewPrefix(k.path, dataKey)
      k1 == [k EXCEPT !.extra = RemoveKey(@, dataKey)]
      One(k2) == [tasks EXCEPT ![t] = k2]
      Two(k2, child) == Append([tasks EXCEPT ![t] = k2], child)
  IN IF IsFunction(k.node)
     THEN Two(Adopt(k, next), Call(k.node, k.value, k.path, t, async))
     ELSE IF k.i = 0
     THEN IF isObject(k.value).kind # "true"
          THEN One(Settle(k, isObject(k.value)))
          ELSE IF k.node.tag = "undefined"
          THEN One(Settle(k, Thrown("TypeError: Cannot convert undefined or null to object")))
          ELSE IF WildcardConflict(k.node.keys)
          THEN One(Settle(k, Thrown("Schema wildcard conflict. A wildcard can not have sibling keys")))
          ELSE One([k EXCEPT !.i = 1, !.extra = ObjectKeys(k.value)])
     ELSE IF k.i > Len(keys)
     THEN One(Settle(k, ResultsOrTrue(k.results \o ExtraneousErrors(k.path, k.extra))))
     ELSE IF schemaValue.tag = "undefined"
     THEN One(Settle(k1, Thrown("incorrect schema value for " \o newPrefix)))
     ELSE IF ~ShouldVisit(schemaValue, dataValue)
     THEN One([k1 EXCEPT !.i = @ + 1])
     ELSE Two(Await(k1, next), NewTask("validateData", schemaValue, dataValue, newPrefix, t))

(* utils.js lines 8-34 *)
StepAnd(t, async) ==
  LET k == tasks[t]
      next == Len(tasks) + 1
      options == k.node.options
      One(k2) == [tasks EXCEPT ![t] = k2]
      Two(k2, child) == Append([tasks EXCEPT ![t] = k2], child)
  IN IF k.i = 0
     THEN Two(Await(k, next), Call(k.node.shim, k.value, k.path, t, async))
     ELSE IF k.i > Len(options)
     THEN One(Settle(k, k.res))
     ELSE IF options[k.i].c = "notAFunction"
     THEN One(Settle(k, Thrown("Optional condition is not a function")))
     ELSE Two(Await(k, next), Call(options[k.i], k.value, k.path, t, async))

(* conditions.js lines 238-265 *)
StepOfType(t) ==
  LET k == tasks[t]
      next == Len(tasks) + 1
      pre == IF k.path # "" THEN k.path \o "." ELSE k.path
      One(k2) == [tasks EXCEPT ![t] = k2]
      Two(k2, child) == Append([tasks EXCEPT ![t] = k2], child)
  IN IF k.i = 0
     THEN IF k.value.t \in {"undefined", "null"}
          THEN One(Settle(k, Thrown("TypeError: Cannot read properties of "
                                      \o k.value.t \o " (reading 'length')")))
          ELSE IF k.value.t \in {"number", "boolean", "object", "function"}
          THEN One(Settle(k, True))
          ELSE One([k EXCEPT !.i = 1])
     ELSE IF k.i > Len(Indexed(k.value))
     THEN One(Settle(k, ResultsOrTrue(k.results)))
     ELSE Two(Await(k, next),
              NewTask("validateData", Deref(k.node.type), Indexed(k.value)[k.i],
                      ElementPath(pre, k.i - 1), t))

(* conditions.js lines 275-281 *)
StepOfShape(t) ==
  LET k == tasks[t]
      next == Len(tasks) + 1
  IN IF isObject(k.value).kind = "true"
     THEN Append([tasks EXCEPT ![t] = Adopt(k, next)],
                 NewTask("validateData", Deref(k.node.shape), k.value, k.path, t))
     ELSE [tasks EXCEPT ![t] = Settle(k, isObject(k.value))]

(* types-complex.js lines 10-26 *)
StepIsAnyOf(t, async) ==
  LET k == tasks[t]
      next == Len(tasks) + 1
      types == [i \in 1..Len(k.node.types) |-> Deref(k.node.types[i])]
      One(k2) == [tasks EXCEPT ![t] = k2]
      Two(k2, child) == Append([tasks EXCEPT ![t] = k2], child)
  IN IF k.i = 0
     THEN One([k EXCEPT !.i = 1])
     ELSE IF k.i > Len(types)
     THEN One(Settle(k, Message("value failed to match one of the the allowed types")))
     ELSE IF IsObjectNode(types[k.i])
     THEN Two(Await(k, next), NewTask("validateData", types[k.i], k.value, "", t))
     ELSE Two(Await(k, next), Call(types[k.i], k.value, "", t, async))

StepTask(t, async) ==
  CASE tasks[t].op = "validateData" -> StepValidateData(t, async)
    [] tasks[t].op = "and" -> StepAnd(t, async)
    [] tasks[t].op = "ofType" -> StepOfType(t)
    [] tasks[t].op = "ofShape" -> StepOfShape(t)
    [] tasks[t].op = "isAnyOf" -> StepIsAnyOf(t, async)

(* the task goes on after the call it awaited has settled with r *)
ResumeTask(k, child) ==
  LET r == Received(child)
      Run(k2) == [k2 EXCEPT !.st = "running", !.waiting = 0]
  IN IF k.op = "validateData" /\ IsFunction(k.node) THEN Settle(k, r)
     ELSE IF k.op = "ofShape" THEN Settle(k, r)
     ELSE IF r.kind = "throw" THEN Settle(k, r)
     ELSE IF k.op \in {"validateData", "ofType"}
     THEN Run([k EXCEPT !.results = Collect(@, child.path, r), !.i = @ + 1])
     ELSE IF k.op = "isAnyOf"
     THEN IF Accepts(r) THEN Settle(k, True) ELSE Run([k EXCEPT !.i = @ + 1])
     ELSE IF k.i = 0
     THEN IF PredicateFailed(r) THEN Settle(k, r)
          ELSE Run([k EXCEPT !.node.options = SortOptions(@), !.res = r, !.i = 1])
     ELSE IF ConditionFailed(r) THEN Settle(k, r)
     ELSE Run([k EXCEPT !.res = r, !.i = @ + 1])

InitAsync ==
  /\ engine \in Engines
  /\ schema \in
       {Mapping(<<"a", "b">>,
               <<IsCustom({"number", "undefined"}, "test fail"),
                 And(Shim("isString"), <<notEmpty, required>>)>>),
       Mapping(<<"a", "b">>,
               <<Mapping(<<"c">>, <<And(Shim("isString"), <<required>>)>>), Shim("isBoolean")>>),
       Mapping(<<"*">>, <<Shim("isBoolean")>>),
       Mapping(<<"a">>, <<fooShape>>),
       And(Shim("isArray"), <<ofType(Shim("isNumeric")), range(<<1>>, <<2>>)>>),
       And(Shim("isArray"), <<ofType(elementShape), required>>),
       And(IsCustom({"number", "undefined"}, "test fail"), <<userCondition, required>>),
       IsCustom({"number", "undefined"}, "test fail"),
       IsAnyOf(<<Shim("isString"),
                 Mapping(<<"a", "b">>, <<Shim("isString"), Shim("isNumeric")>>),
                 Shim("isArray")>>)}
  /\ data \in
       {Undefined, Null, Num(0), Str("x"),
       Arr(<<Num(2), Str("x")>>),
       Arr(<<Obj(<<"a">>, <<Bool(TRUE)>>), Obj(<<"b", "a">>, <<Num(2), Str("x")>>)>>),
       Obj(<<>>, <<>>),
       Obj(<<"a", "b">>, <<Str("x"), Num(2)>>),
       Obj(<<"b", "a">>, <<Str(""), Obj(<<"d", "c">>, <<Num(2), Str("x")>>)>>)}
  /\ prefix \in Prefixes
  /\ written = schema
  /\ pc = "ready"
  /\ outcome = Idle
  /\ calls = <<>>
  /\ round = 0
  /\ tasks = <<>>
  /\ keyErrors = NotConverted
  /\ env = NotAssigned

(* validateData(schema, data, prefix) is called *)
StartCall ==
  /\ pc = "ready"
  /\ tasks' = <<NewTask("validateData", schema, data, prefix, 0)>>
  /\ pc' = "running"
  /\ UNCHANGED <<engine, written, schema, data, prefix, outcome, calls, round, keyErrors, env>>

(* a task that is not suspended runs up to its next await or to its end; the
   function it calls, if a leaf, is a plain function or an asynchronous one *)
Step ==
  /\ pc = "running"
  /\ \E t \in 1..Len(tasks), async \in BOOLEAN :
       /\ tasks[t].st = "running"
       /\ tasks' = StepTask(t, async)
  /\ UNCHANGED <<engine, written, schema, data, prefix, pc, outcome, calls, round, keyErrors, env>>

(* an asynchronous predicate resolves *)
Resolve ==
  /\ \E t \in 1..Len(tasks) :
       /\ tasks[t].st = "pending"
       /\ tasks' = [tasks EXCEPT ![t] = Settle(@, LeafResult(@))]
  /\ UNCHANGED <<engine, written, schema, data, prefix, pc, outcome, calls, round, keyErrors, env>>

(* a suspended task is resumed with what the awaited call settled to *)
Resume ==
  /\ \E t \in 1..Len(tasks) :
       /\ tasks[t].st = "awaiting"
       /\ tasks[tasks[t].waiting].st = "settled"
       /\ tasks' = [tasks EXCEPT ![t] = ResumeTask(@, tasks[tasks[t].waiting])]
  /\ UNCHANGED <<engine, written, schema, data, prefix, pc, outcome, calls, round, keyErrors, env>>

(* the promise validateData returned to the caller has settled *)
Finish ==
  /\ pc = "running"
  /\ tasks[1].st = "settled"
  /\ outcome' = tasks[1].res
  /\ pc' = "validated"
  /\ round' = round + 1
  /\ UNCHANGED <<engine, written, schema, data, prefix, calls, tasks, keyErrors, env>>

NextAsync == StartCall \/ Step \/ Resolve \/ Resume \/ Finish

SpecAsync == InitAsync /\ [][NextAsync]_vars

-----------------------------------------------------------------------------
(* Vocabulary of the properties about the order of the calls *)

Unsettled(t) == tasks[t].st # "settled"

Siblings(i, j) == i # j /\ tasks[i].parent = tasks[j].parent

(* C20: within one validateData call evaluation is strictly sequential even
   with asynchronous predicates: the validator for a schema key (array
   element, condition) is not called before the validator for the previous
   key (element, condition) has settled, so no two validators called by the
   same function are in flight at once and at most one predicate is pending
   at any time; the call resolves to what the evaluation in order yields. *)
C20_StrictlySequential ==
  /\ \A i, j \in 1..Len(tasks) : (Siblings(i, j) /\ i < j) => ~Unsettled(i)
  /\ Cardinality({t \in 1..Len(tasks) : tasks[t].st = "pending"}) <= 1
  /\ Cardinality({t \in 1..Len(tasks) : tasks[t].st = "running"}) <= 1
  /\ \A t \in 1..Len(tasks) :
       tasks[t].st = "awaiting" =>
         /\ tasks[t].waiting \in (t + 1)..Len(tasks)
         /\ tasks[tasks[t].waiting].parent = t
  /\ pc = "validated" => outcome = validateData(schema, data, prefix).res

(* { a: isCustom(f), b: isString.and(notEmpty, required) } on an object:
   the predicate for b is pending, the one for a has resolved to a failure *)
C20_Witness ==
  /\ pc = "running"
  /\ schema.tag = "mapping"
  /\ \E i, j \in 1..Len(tasks) :
       /\ i < j
       /\ tasks[i].parent = 1
       /\ tasks[j].parent = 1
       /\ tasks[i].res.kind = "string"
       /\ \E l \in (j + 1)..Len(tasks) : tasks[l].st = "pending"

-----------------------------------------------------------------------------
(* Vocabulary of the properties about repeated calls *)

(* what the first call on the schema as it was written resolved to *)
FirstOutcome == validateData(written, data, prefix).res

(* C21: validating the same (schema, data) pair twice in sequence yields
   identical results, although each call sorts the validator's condition
   list in place: every later call resolves to what the first call resolved
   to. *)
C21_SecondCallSameResult ==
  (Done /\ round >= 2) => outcome = FirstOutcome

(* where the condition named op stands among the conditions the call invoked *)
InvokedAt(op) ==
  CHOOSE k \in 1..Len(ConditionsInvoked) : ConditionsInvoked[k].op = op

WasInvoked(op) == \E k \in 1..Len(ConditionsInvoked) : ConditionsInvoked[k].op = op

SamePriority(c1, c2) ==
  /\ Len(c1.priority) = 1
  /\ c1.priority = c2.priority

(* C27: conditions of equal priority are invoked in the order in which they
   were given to and(), on the first call and on every later call. *)
C27_TiesKeepSuppliedOrder ==
  (/\ Done
   /\ written.tag = "and"
   /\ \A c \in Range(written.options) : IsFunctionOption(c)) =>
    \A i, j \in 1..Len(written.options) :
      LET c1 == written.options[i]
          c2 == written.options[j]
      IN (/\ i < j
          /\ c1.c # c2.c
          /\ SamePriority(c1, c2)
          /\ WasInvoked(c1.c)
          /\ WasInvoked(c2.c)) => InvokedAt(c1.c) < InvokedAt(c2.c)

-----------------------------------------------------------------------------
(* Vocabulary of the properties about what a call leaves behind *)

RECURSIVE Unordered(_)
RECURSIVE UnorderedCondition(_)

(* a schema node with the order of every condition list forgotten *)
Unordered(node) ==
  CASE node.tag = "and" ->
         [tag |-> "and", shim |-> Unordered(node.shim), count |-> Len(node.options),
          options |-> {UnorderedCondition(c) : c \in Range(node.options)}]
    [] node.tag = "mapping" ->
         [node EXCEPT !.nodes = [i \in 1..Len(node.nodes) |-> Unordered(node.nodes[i])]]
    [] node.tag = "shim" /\ node.name = "isAnyOf" ->
         [node EXCEPT !.types = [i \in 1..Len(node.types) |-> Unordered(node.types[i])]]
    [] OTHER -> node

UnorderedCondition(c) ==
  CASE c.c = "ofType" -> [c EXCEPT !.type = Unordered(c.type)]
    [] c.c = "ofShape" -> [c EXCEPT !.shape = Unordered(c.shape)]
    [] OTHER -> c

(* C24 as stated: after a call has returned or raised, the schema, the order
   of every condition list included, is as it was written. *)
C24_SchemaUnchanged ==
  Done => schema = written

(* C24: after a call has returned or raised, every mapping has the keys and
   children it was written with and every composed validator has the shim
   and the conditions it was written with; only the order of condition lists
   may differ from the written order. *)
C24_OnlyConditionOrderChanges ==
  Done => Unordered(schema) = Unordered(written)

(* a call has sorted the condition list of a validator into another order
   than the written one, and a second call has met that order *)
C24_Witness ==
  /\ Done
  /\ round = 2
  /\ written.tag = "and"
  /\ Len(written.options) = MaxOptions
  /\ schema # written
  /\ Unordered(schema) = Unordered(written)

-----------------------------------------------------------------------------
(* Vocabulary of the properties about undefined schema values *)

RECURSIVE ContainsUndefined(_)
ContainsUndefined(node) ==
  /\ node.tag = "mapping"
  /\ \E i \in 1..Len(node.nodes) :
       node.nodes[i].tag = "undefined" \/ ContainsUndefined(node.nodes[i])

(* the schema values a traversal of the literal takes, each with the key of
   the data it is applied to, in the order of the loop *)
Entries(node, d) ==
  IF HasWildcard(node)
  THEN [i \in 1..Len(ObjectKeys(d)) |->
          [node |-> node.nodes[IndexOf(node.keys, "*")], key |-> d.keys[i]]]
  ELSE [i \in 1..Len(node.keys) |-> [node |-> node.nodes[i], key |-> node.keys[i]]]

(* the paths of the undefined schema values the traversal comes to, in the
   order of the traversal: those of the literals it enters *)
RECURSIVE UndefinedPaths(_, _, _)
RECURSIVE UndefinedPathsFrom(_, _, _, _)
UndefinedPaths(node, d, pre) == UndefinedPathsFrom(Entries(node, d), d, pre, 1)

UndefinedPathsFrom(entries, d, pre, i) ==
  IF i > Len(entries) THEN <<>>
  ELSE LET e == entries[i]
           path == Dotted(pre, e.key)
       IN (IF e.node.tag = "undefined" THEN <<path>>
           ELSE IF e.node.tag = "mapping" /\ Get(d, e.key).t = "object"
           THEN UndefinedPaths(e.node, Get(d, e.key), path)
           ELSE <<>>)
            \o UndefinedPathsFrom(entries, d, pre, i + 1)

(* the traversal enters the literal that is the schema of the call *)
Entered == written.tag = "mapping" /\ data.t \in {"object", "undefined"}

SchemaValueMessage == "incorrect schema value for "

IsSchemaValueMessage(msg) ==
  /\ Len(msg) >= Len(SchemaValueMessage)
  /\ SubSeq(msg, 1, Len(SchemaValueMessage)) = SchemaValueMessage

(* C25 as stated: a literal with a declared key whose schema value is
   undefined makes the call raise, whatever the data. *)
C25_UndefinedNodeAlwaysRaises ==
  (pc = "validated" /\ ContainsUndefined(written)) =>
    outcome.kind = "throw" /\ IsSchemaValueMessage(outcome.msg)

(* C25: the call raises 'incorrect schema value for <path>' exactly when the
   traversal comes to a key whose schema value is undefined, which it does
   in every literal it enters, whether or not the data has the key; the path
   is that of the first such key in the order of the traversal; when the
   literal holding the key is not entered the call returns, and no entry of
   a returned list carries that message. *)
C25_UndefinedNodeRaisesWhenReached ==
  (pc = "validated" /\ ContainsUndefined(written)) =>
    LET paths == IF Entered THEN UndefinedPaths(written, data, prefix) ELSE <<>>
    IN /\ outcome.kind = "throw" <=> Len(paths) > 0
       /\ Len(paths) > 0 => outcome = Thrown(SchemaValueMessage \o paths[1])
       /\ \A i \in 1..Len(ErrorsOf(outcome)) :
            ~IsSchemaValueMessage(ErrorsOf(outcome)[i].error)

(* { a: isBoolean, b: undefined } against { a: 'x' } under the prefix p: the
   error at a is lost, the call raises for p.b *)
C25_Witness ==
  /\ pc = "validated"
  /\ written = Mapping(<<"a", "b">>, <<Shim("isBoolean"), NoSchema>>)
  /\ data = Obj(<<"a">>, <<Str("x")>>)
  /\ prefix = "p"
  /\ outcome = Thrown("incorrect schema value for p.b")

-----------------------------------------------------------------------------
(* toKeys (type-validation.js lines 618-624) *)

(* the inverse of `${n}` on a string of digits *)
RECURSIVE ParseNat(_)
ParseNat(str) ==
  IF Len(str) = 0 THEN 0
  ELSE ParseNat(SubSeq(str, 1, Len(str) - 1)) * 10
         + (IndexOf(Digits, SubSeq(str, Len(str), Len(str))) - 1)

(* a property key that is an array index: the canonical rendering of a
   natural number *)
IsArrayIndex(key) ==
  /\ Len(key) > 0
  /\ \A i \in 1..Len(key) : IndexOf(Digits, SubSeq(key, i, i)) > 0
  /\ Len(key) = 1 \/ SubSeq(key, 1, 1) # "0"

(* where a new own property comes to stand among the keys of an ordinary
   object: array indices first, in ascending order, then the other keys in
   the order of their creation *)
OwnKeyPosition(keys, key) ==
  IF IsArrayIndex(key)
  THEN 1 + Cardinality({i \in 1..Len(keys) :
                          IsArrayIndex(keys[i]) /\ ParseNat(keys[i]) < ParseNat(key)})
  ELSE Len(keys) + 1

(* acc[key] = error on an object created by {}, error a string: __proto__ is
   the accessor inherited from Object.prototype, whose setter ignores a
   value that is neither an object nor null *)
Set(acc, key, error) ==
  IF key = "__proto__" THEN acc
  ELSE IF IndexOf(acc.keys, key) > 0
  THEN [acc EXCEPT !.vals[IndexOf(acc.keys, key)] = Str(error)]
  ELSE LET pos == OwnKeyPosition(acc.keys, key)
       IN Obj(SubSeq(acc.keys, 1, pos - 1) \o <<key>> \o SubSeq(acc.keys, pos, Len(acc.keys)),
              SubSeq(acc.vals, 1, pos - 1) \o <<Str(error)>>
                \o SubSeq(acc.vals, pos, Len(acc.vals)))

(* validationResult.reduce((acc, item) => { acc[item.key] = item.error; return acc }, {}) *)
RECURSIVE reduce(_, _, _)
reduce(validationResult, i, acc) ==
  IF i > Len(validationResult) THEN acc
  ELSE reduce(validationResult, i + 1,
              Set(acc, validationResult[i].key, validationResult[i].error))

toKeys(validationResult) == reduce(validationResult, 1, Obj(<<>>, <<>>))

(* the error lists toKeys is given: paths of declared keys, of array
   elements and of extraneous keys of the data *)
MaxErrors == 3

RECURSIVE ErrorLists(_)
ErrorLists(n) ==
  IF n = 0 THEN {<<>>}
  ELSE LET shorter == ErrorLists(n - 1)
       IN shorter \cup
          {Append(l, ValidationError(k, m)) :
             l \in {x \in shorter : Len(x) = n - 1}, k \in {"a", "a.b", "1", "0", "__proto__"},
             m \in {"extraneous key found", "value is not a boolean"}}

(* a caller holds an error list *)
InitToKeys ==
  /\ engine = "timsort"
  /\ schema = NoSchema
  /\ written = schema
  /\ data = Undefined
  /\ prefix = ""
  /\ pc = "ready"
  /\ outcome \in {Errors(l) : l \in ErrorLists(MaxErrors)}
  /\ calls = <<>>
  /\ round = 0
  /\ tasks = <<>>
  /\ keyErrors = NotConverted
  /\ env = NotAssigned

(* toKeys(validationResult) *)
CallToKeys ==
  /\ pc = "ready"
  /\ keyErrors' = toKeys(outcome.errs)
  /\ pc' = "converted"
  /\ UNCHANGED <<engine, written, schema, data, prefix, outcome, calls, round, tasks, env>>

NextToKeys == CallToKeys

SpecToKeys == InitToKeys /\ [][NextToKeys]_vars

(* no two entries of the list have the same key *)
UniqueKeys(list) == \A i, j \in 1..Len(list) : list[i].key = list[j].key => i = j

(* C26: for an error list whose keys are unique, toKeys returns a mapping
   whose key set is exactly the set of the list's keys, and each key maps to
   the message of its entry. *)
C26_KeySetIsListKeys ==
  (pc = "converted" /\ UniqueKeys(outcome.errs)) =>
    /\ Range(keyErrors.keys) = {outcome.errs[i].key : i \in 1..Len(outcome.errs)}
    /\ \A i \in 1..Len(outcome.errs) :
         Get(keyErrors, outcome.errs[i].key) = Str(outcome.errs[i].error)

-----------------------------------------------------------------------------
(* The chained API of the earlier version (type-validation.js, first
   listing): isArray.limit(lower, upper) and its isRequired *)

Limit(lower, upper) == [tag |-> "shim", name |-> "isArray.limit", lower |-> lower, upper |-> upper]

(* lines 141-149 and 369-376: the earlier baseShim and isArrayShim *)
isArrayShim(value) ==
  IF value.t = "undefined" THEN True
  ELSE IF value.t = "array" THEN True ELSE Message("value is not an array")

(* line 382: value >= lower && value <= upper, on the array itself *)
WithinLimits(lower, upper, value) ==
  /\ JsGe(ToNumber(value), <<2 * lower>>)
  /\ JsLe(ToNumber(value), <<2 * upper>>)

LimitMessage(lower, upper) ==
  "array size falls outside of range (" \o IntStr(lower) \o ", " \o IntStr(upper) \o ")"

(* lines 378-392: the shim isArray.limit(lower, upper) returns *)
limit(lower, upper, value) ==
  IF value.t = "undefined" THEN True
  ELSE IF isArrayShim(value) = True
  THEN IF WithinLimits(lower, upper, value)
       THEN True
       ELSE Message(LimitMessage(lower, upper))
  ELSE isArrayShim(value)

(* lines 151-156 *)
isRequired(value) ==
  IF value.t = "undefined" THEN Message("value is required but missing") ELSE True

(* lines 208-218: addCondition(shim, {isRequired}) *)
limitIsRequired(lower, upper, value) ==
  IF limit(lower, upper, value) = True THEN isRequired(value) ELSE limit(lower, upper, value)

MaxLength == 3

MaxLimit == 3

(* 1, 5 and 'x' *)
RECURSIVE ArraysOf(_)
ArraysOf(n) ==
  IF n = 0 THEN {<<>>}
  ELSE LET shorter == ArraysOf(n - 1)
       IN shorter \cup {Append(a, e) : a \in {x \in shorter : Len(x) = n - 1}, e \in {Num(2), Num(10), Str("x")}}

InitLegacy ==
  /\ engine = "timsort"
  /\ schema \in {Limit(lower, upper) : lower, upper \in (-1)..MaxLimit}
  /\ written = schema
  /\ data \in {Arr(a) : a \in ArraysOf(MaxLength)} \cup {Undefined, Null, Str("x")}
  /\ prefix = ""
  /\ pc = "ready"
  /\ outcome = Idle
  /\ calls = <<>>
  /\ round = 0
  /\ tasks = <<>>
  /\ keyErrors = NotConverted
  /\ env = NotAssigned

(* isArray.limit(lower, upper)(value) *)
CallLimit ==
  /\ pc = "ready"
  /\ outcome' = limit(schema.lower, schema.upper, data)
  /\ pc' = "called"
  /\ UNCHANGED <<engine, written, schema, data, prefix, calls, round, tasks, keyErrors, env>>

(* isArray.limit(lower, upper).isRequired(value) *)
CallLimitIsRequired ==
  /\ pc = "ready"
  /\ outcome' = limitIsRequired(schema.lower, schema.upper, data)
  /\ pc' = "required"
  /\ UNCHANGED <<engine, written, schema, data, prefix, calls, round, tasks, keyErrors, env>>

NextLegacy == CallLimit \/ CallLimitIsRequired

SpecLegacy == InitLegacy /\ [][NextLegacy]_vars

(* C30: isArray.limit(lower, upper) accepts an array exactly when
   lower <= length <= upper and otherwise returns 'array size falls outside
   of range (lower, upper)', for every array and all integer bounds. *)
C30_LimitBoundsTheLength ==
  (pc = "called" /\ data.t = "array") =>
    outcome = IF schema.lower <= Len(data.items) /\ Len(data.items) <= schema.upper
              THEN True
              ELSE Message(LimitMessage(schema.lower, schema.upper))

-----------------------------------------------------------------------------
(* Vocabulary of the properties about results that are neither true nor an
   error *)

(* the leaf at the key a of a literal, the data it is given and its path *)
LeafA == written.nodes[1]

ValueA == Get(data, "a")

PathA == Dotted(prefix, "a")

(* what the leaf resolves to *)
ResultA == invoke(LeafA, ValueA, PathA).res

IsUnderA(e) == AtOrBeneath(e.key, PathA)

(* the entries of the returned list that lie at a or beneath it *)
EntriesA == SelectSeq(ErrorsOf(outcome), IsUnderA)

Invoked(op) == \E i \in 1..Len(calls) : calls[i].op = op

(* the user function of the leaf rejects the value *)
Rejected == ValueA.t = "string"

(* C28: in the traversal of a literal, the result of a visited leaf adds one
   entry at the leaf's path when it is a string, its entries when it is a
   non-empty array, and nothing when it is anything else (true, false,
   undefined, a number, an empty array): the key then counts as valid.  In
   and() every result of the shim or of a condition other than true ends the
   validator and is its result, and in isAnyOf every result other than true
   makes the next alternative be tried. *)
C28_OnlyMessagesAndListsAreRecorded ==
  (pc = "validated" /\ round = 1 /\ written \in OddLiterals) =>
    /\ ResultA.kind = "throw" => outcome = ResultA
    /\ ResultA.kind = "string" => EntriesA = <<ValidationError(PathA, ResultA.msg)>>
    /\ ResultA.kind = "array" => EntriesA = ResultA.errs
    /\ ResultA.kind \in {"true", "false", "undefined", "number"} => EntriesA = <<>>
    /\ (LeafA.tag = "shim" /\ LeafA.name = "isCustom" /\ Rejected) => ResultA = LeafA.ret
    /\ (LeafA.tag = "and" /\ LeafA.shim.name = "isCustom" /\ Rejected) =>
         ResultA = LeafA.shim.ret /\ ~Invoked("required")
    /\ (LeafA.tag = "and" /\ LeafA.shim.name = "isString" /\ Rejected) =>
         /\ Invoked("userCondition")
         /\ ResultA = written.nodes[1].options[1].ret
         /\ ~Invoked("notEmpty")
    /\ (LeafA.tag = "shim" /\ LeafA.name = "isAnyOf" /\ Rejected) =>
         Invoked("isCustom") /\ Invoked("isString") /\ ResultA = True

(* { a: isCustom(f), b: isBoolean } with f returning false, against
   { a: 'x', b: true }: f rejects a, and the call resolves to true *)
C28_Witness ==
  /\ pc = "validated"
  /\ written = Mapping(<<"a", "b">>, <<Returning({"string"}, False), Shim("isBoolean")>>)
  /\ data = Obj(<<"a", "b">>, <<Str("x"), Bool(TRUE)>>)
  /\ ResultA = False
  /\ outcome = True

-----------------------------------------------------------------------------
(* Vocabulary of the properties about asynchronous leaves *)

(* what the call of the task yields when every function is evaluated in
   place, as a synchronous one is *)
InPlace(k) ==
  CASE k.op = "validateData" -> validateData(k.node, k.value, k.path).res
    [] k.op \in {"ofType", "ofShape"} -> callCondition(k.node, k.value, k.path).res
    [] k.op = "isAnyOf" -> callShim(k.node, k.value, k.path).res
    [] k.op = "leaf" -> LeafResult(k)

IsLeaf(t) == tasks[t].op = "leaf"

(* C23: a predicate or condition that resolves asynchronously is treated
   like a synchronous one returning the same value: whichever leaves are
   asynchronous, every call of the traversal (the call of the caller, the
   visit of a child of a literal, of an alternative of isAnyOf, of an array
   element, the call of a condition) settles to what the evaluation in place
   yields. *)
C23_AsyncLeafLikeSyncLeaf ==
  /\ \A t \in 1..Len(tasks) :
       (tasks[t].st = "settled" /\ tasks[t].op # "and") => tasks[t].res = InPlace(tasks[t])
  /\ pc = "validated" => outcome = InPlace(tasks[1])

(* a call has resolved to an error list in which an asynchronous leaf and a
   synchronous one took part *)
C23_Witness ==
  /\ pc = "validated"
  /\ outcome.kind = "array"
  /\ \E i, j \in 1..Len(tasks) :
       /\ IsLeaf(i) /\ tasks[i].async /\ tasks[i].res.kind = "string"
       /\ IsLeaf(j) /\ ~tasks[j].async

-----------------------------------------------------------------------------
(* A call on a schema that refers to itself, followed step by step.  The
   number of calls in one run is capped. *)

MaxTasks == 14

InitSelf ==
  /\ engine \in Engines
  /\ schema \in {selfLiteral, selfShape}
  /\ data \in
       {Undefined, Str("x"), Obj(<<>>, <<>>),
       Obj(<<"a">>, <<Obj(<<>>, <<>>)>>),
       Obj(<<"a">>, <<Obj(<<"a">>, <<Obj(<<>>, <<>>)>>)>>),
       Obj(<<"a">>, <<Obj(<<"a">>, <<Str("x")>>)>>),
       Obj(<<"b", "a">>, <<Bool(TRUE), Str("x")>>)}
  /\ prefix \in Prefixes
  /\ written = schema
  /\ pc = "ready"
  /\ outcome = Idle
  /\ calls = <<>>
  /\ round = 0
  /\ tasks = <<>>
  /\ keyErrors = NotConverted
  /\ env = NotAssigned

StepCapped == Len(tasks) < MaxTasks /\ Step

NextSelf == StartCall \/ StepCapped \/ Resolve \/ Resume \/ Finish

(* the event loop runs whatever can run *)
SpecSelf == InitSelf /\ [][NextSelf]_vars /\ WF_vars(NextSelf)

(* how deep a data value is: the number of objects on its longest path *)
RECURSIVE DataDepth(_)
DataDepth(d) ==
  IF d.t # "object" THEN 0
  ELSE 1 + (IF Len(d.vals) = 0 THEN 0
            ELSE CHOOSE m \in {DataDepth(d.vals[i]) : i \in 1..Len(d.vals)} :
                   \A i \in 1..Len(d.vals) : DataDepth(d.vals[i]) <= m)

(* the calls of validateData among the tasks *)
Traversals == {t \in 1..Len(tasks) : tasks[t].op = "validateData"}

(* C29: validateData terminates on every finite data value for every schema
   whose predicates terminate, a schema that refers to itself included (a
   literal whose child is the literal itself, or isObject.and(ofShape(s))
   inside s): every call resolves, and it never makes more nested calls of
   validateData than the data is deep (one more for the data itself). *)
C29_EveryCallResolves ==
  /\ <>(pc = "validated")
  /\ [](Cardinality(Traversals) <= DataDepth(data) + 1)

-----------------------------------------------------------------------------
(* Two calls validateData(v, d1) and validateData(v, d2) of one validator
   v = shim.and(...options) that run at the same time.  validateData hands
   the call on to v (type-validation.js line 542).  Each call runs from one
   await to the next in one step, and the steps of the two calls interleave.
   The calls share the option array of v, which is schema.options, the
   closure variable result of attachOptions, which is env.result, and the
   global result that ofType assigns, which is env.global.  tasks[p] is the
   call p and data[p] its value.

   st of a call: "start"; "shim", v awaits the shim; "cond", v awaits the
   condition cur; "elem", ofType awaits the validation of the element j and v
   awaits ofType; "returned", ofType has settled to condRes and v is to be
   resumed; "done", the call has settled to res. *)

NewCall(value) ==
  [value |-> value, st |-> "start", i |-> 0, cur |-> required, j |-> 0,
   results |-> <<>>, condRes |-> Idle, res |-> Idle]

Finished(k, res) == [k EXCEPT !.st = "done", !.res = res]

(* value[0], ..., value[value.length - 1], nothing when there is no length *)
ItemsOf(value) == IF value.t \in {"array", "string"} THEN Indexed(value) ELSE <<>>

(* conditions.js lines 238-248: ofType is called and runs up to its first
   await, or to its end when there is no element *)
CallOfType(k) ==
  IF k.value.t \in {"undefined", "null"}
  THEN [k EXCEPT !.st = "returned",
                 !.condRes = Thrown("TypeError: Cannot read properties of "
                                      \o k.value.t \o " (reading 'length')")]
  ELSE IF Len(ItemsOf(k.value)) = 0
  THEN [k EXCEPT !.st = "returned", !.condRes = True]
  ELSE [k EXCEPT !.st = "elem", !.j = 1, !.results = <<>>]

(* utils.js lines 24-33: the loop takes the element at index i of the option
   array as it is now and calls it, or ends; result is the closure variable
   as the step has just assigned it *)
NextCondition(k, i, options, result) ==
  IF i > Len(options) THEN Finished(k, result)
  ELSE IF options[i].c = "notAFunction"
  THEN Finished(k, Thrown("Optional condition is not a function"))
  ELSE IF options[i].c = "ofType"
  THEN CallOfType([k EXCEPT !.i = i, !.cur = options[i]])
  ELSE [k EXCEPT !.st = "cond", !.i = i, !.cur = options[i]]

(* validateData(v, d) calls v(d), which calls the shim and awaits it *)
Start(p) ==
  /\ tasks[p].st = "start"
  /\ tasks' = [tasks EXCEPT ![p].st = "shim"]
  /\ UNCHANGED <<engine, written, schema, data, prefix, pc, outcome, calls, round,
                 keyErrors, env>>

(* utils.js lines 9-27: result = await shim(value); the options are sorted
   and the first of them is called *)
AfterShim(p) ==
  /\ tasks[p].st = "shim"
  /\ LET k == tasks[p]
         r == callShim(schema.shim, k.value, "").res
         sorted == SortOptions(schema.options)
     IN /\ env' = [env EXCEPT !.result = r]
        /\ IF PredicateFailed(env'.result)
           THEN /\ tasks' = [tasks EXCEPT ![p] = Finished(k, env'.result)]
                /\ schema' = schema
           ELSE /\ schema' = [schema EXCEPT !.options = sorted]
                /\ tasks' = [tasks EXCEPT ![p] = NextCondition(k, 1, sorted, env'.result)]
  /\ UNCHANGED <<engine, written, data, prefix, pc, outcome, calls, round, keyErrors>>

(* utils.js lines 28-33: result = await validator(value); the loop ends or
   goes on with the next element of the option array *)
AfterCondition(p) ==
  /\ tasks[p].st \in {"cond", "returned"}
  /\ LET k == tasks[p]
         r == IF k.st = "cond" THEN callCondition(k.cur, k.value, "").res ELSE k.condRes
     IN IF r.kind = "throw"
        THEN /\ tasks' = [tasks EXCEPT ![p] = Finished(k, r)]
             /\ env' = env
        ELSE /\ env' = [env EXCEPT !.result = r]
             /\ tasks' = [tasks EXCEPT ![p] =
                            IF ConditionFailed(env'.result)
                            THEN Finished(k, env'.result)
                            ELSE NextCondition(k, k.i + 1, schema.options, env'.result)]
  /\ UNCHANGED <<engine, written, schema, data, prefix, pc, outcome, calls, round,
                 keyErrors>>

(* conditions.js lines 248-263: result = await validateData(type, value[i]),
   result being the global; its errors are collected, and ofType goes on
   with the next element or returns *)
AfterElement(p) ==
  /\ tasks[p].st = "elem"
  /\ LET k == tasks[p]
         path == ElementPath("", k.j - 1)
         r == validateData(k.cur.type, ItemsOf(k.value)[k.j], path).res
     IN IF r.kind = "throw"
        THEN /\ tasks' = [tasks EXCEPT ![p] = [k EXCEPT !.st = "returned", !.condRes = r]]
             /\ env' = env
        ELSE /\ env' = [env EXCEPT !.global = r]
             /\ tasks' = [tasks EXCEPT ![p] =
                  IF env'.global.kind = "undefined"
                  THEN [k EXCEPT !.st = "returned",
                                 !.condRes = Thrown("TypeError: Cannot read properties of undefined (reading 'length')")]
                  ELSE LET results == Collect(k.results, path, env'.global)
                       IN IF k.j < Len(ItemsOf(k.value))
                          THEN [k EXCEPT !.j = @ + 1, !.results = results]
                          ELSE [k EXCEPT !.st = "returned", !.results = results,
                                         !.condRes = ResultsOrTrue(results)]]
  /\ UNCHANGED <<engine, written, schema, data, prefix, pc, outcome, calls, round,
                 keyErrors>>

(* the validators two calls share and the values they are called with *)
InitConcurrent ==
  /\ engine \in Engines
  /\ schema \in
       Composed(Shim("isString"), {required, notEmpty, inList(<<"one", "two">>)})
       \cup Composed(Shim("isArray"), {required, range(<<1>>, <<2>>), ofType(Shim("isNumeric"))})
       \cup {And(Shim("isObject"), <<userCondition, required>>),
             And(Shim("isObject"), <<required, userCondition>>)}
  /\ written = schema
  /\ data \in
       {<<d1, d2>> :
          d1, d2 \in {Undefined, Str(""), Str("one"), Arr(<<Num(2), Str("x")>>), Arr(<<Str("x"), Str("x"), Num(2)>>)}}
  /\ prefix = ""
  /\ pc = "running"
  /\ outcome = Idle
  /\ calls = <<>>
  /\ round = 0
  /\ tasks = <<NewCall(data[1]), NewCall(data[2])>>
  /\ keyErrors = NotConverted
  /\ env = NotAssigned

NextConcurrent ==
  \E p \in 1..2 : Start(p) \/ AfterShim(p) \/ AfterCondition(p) \/ AfterElement(p)

SpecConcurrent == InitConcurrent /\ [][NextConcurrent]_vars

(* what the call p resolves to when it is the only call of the validator *)
Alone(p) == invoke(written, data[p], "").res

(* C22: two calls of validateData that share a validator and run at the
   same time, interleaved at their awaits, each resolve to what they resolve
   to when run alone, although they share the closure variable result, the
   global result and the option array. *)
C22_ConcurrentLikeAlone ==
  \A p \in 1..2 : tasks[p].st = "done" => tasks[p].res = Alone(p)

====
